---- MODULE Spec2Model ----
(***************************************************************************)
(* State-machine model of the BEAR serial bus driver: the packet framer    *)
(* (make_packet / read_packet_deadline / remove_garbage / find_header),    *)
(* the Bus cursors and buffers, and the instruction set layered on them    *)
(* (ping, read, write, multi_write, save_config).  The serial port is the  *)
(* environment: it discards, accepts a written packet, and delivers bytes  *)
(* in chunks no longer than the slice it is offered.                       *)
(***************************************************************************)
EXTENDS Integers, Sequences, FiniteSets, TLC

\* ------------------------------------------------------------------ bounds
\* Capacity of the read buffer handed to Bus::with_buffers.
ReadCap == 12
\* Capacity of the write buffer handed to Bus::with_buffers.
WriteCap == 11
\* Number of bus operations one behaviour performs.
MaxOps == 2
\* A transport read returns 1..MaxChunk bytes, or everything that fits.
MaxChunk == 2
\* Largest buffer capacity of the encode/decode loop-back specification.
BigCap == 260

\* ------------------------------------------------------- program constants
HEADER_PREFIX == <<255, 255>>
HEADER_SIZE == 4
PACKET_ID == 2
PACKET_LEN == 3
PACKET_ERROR == 4
InstPing == 1
InstReadStat == 2
InstWriteStat == 3
InstReadCfg == 4
InstWriteCfg == 5
InstSaveCfg == 6
\* ErrorFlags::COMMUNICATION | ErrorFlags::OVERHEAT
WARNING_FLAGS == 3
\* All seven named flags (bits 0..6) of the bitflags! block.
ALL_FLAGS == 127

\* Option::None for an Option<ErrorFlags>, and "no value" in result records.
None == -1

\* ------------------------------------------------------------ slice helpers
Min(a, b) == IF a <= b THEN a ELSE b

\* buf[i] with Rust's zero-based index.
At(buf, i) == buf[i + 1]

\* buf[a..b] with Rust's zero-based, half-open range.
Slice(buf, a, b) == SubSeq(buf, a + 1, b)

\* <[u8]>::starts_with
StartsWith(buf, prefix) ==
    /\ Len(buf) >= Len(prefix)
    /\ SubSeq(buf, 1, Len(prefix)) = prefix

\* <[u8]>::copy_within(from..to, 0): the bytes past the moved block stay.
CopyWithin(buf, from, to) ==
    [i \in 1..Len(buf) |-> IF i <= to - from THEN buf[i + from] ELSE buf[i]]

\* Bit k of byte b.
Bit(b, k) == (b \div (2 ^ k)) % 2

\* ---------------------------------------------------------------- checksum
\* data.iter().fold(0_u8, |acc, d| acc.wrapping_add(*d)) over data[lo..hi]
\* (one-based, inclusive).  Wrapping addition is associative, so the fold is
\* taken over the two halves of the range, which keeps the nesting shallow.
RECURSIVE WrappingFold(_, _, _)
WrappingFold(data, lo, hi) ==
    IF lo > hi THEN 0
    ELSE IF lo = hi THEN data[lo] % 256
    ELSE (WrappingFold(data, lo, (lo + hi) \div 2)
          + WrappingFold(data, (lo + hi) \div 2 + 1, hi)) % 256

\* A checksum that is the two's complement of the sum.
calculate_checksum_negated(data) == (256 - WrappingFold(data, 1, Len(data))) % 256

\* calculate_checksum: 255 - sum
calculate_checksum(data) == 255 - WrappingFold(data, 1, Len(data))

\* A size check that reports the two sizes in each other's place.
BufferTooSmallCheck_swapped(required_size, total_size) ==
    [ok |-> required_size <= total_size,
     required_size |-> total_size, total_size |-> required_size]

\* ------------------------------------------------------------------ errors
\* BufferTooSmallError::check
BufferTooSmallCheck(required_size, total_size) ==
    IF required_size <= total_size
    THEN [ok |-> TRUE, required_size |-> required_size, total_size |-> total_size]
    ELSE [ok |-> FALSE, required_size |-> required_size, total_size |-> total_size]

\* InvalidPacketId::check
InvalidPacketIdCheck(actual, expected) ==
    IF actual = expected
    THEN [ok |-> TRUE, actual |-> actual, expected |-> expected]
    ELSE [ok |-> FALSE, actual |-> actual, expected |-> expected]

\* InvalidParameterCount::check
InvalidParameterCountCheck(actual, expected) ==
    IF actual = expected
    THEN [ok |-> TRUE, actual |-> actual, expected |-> expected]
    ELSE [ok |-> FALSE, actual |-> actual, expected |-> expected]

\* ------------------------------------------------------------- error flags
\* A conversion that drops the bits outside the named flags.
from_bits_truncate(bits) == bits % 128

\* ErrorFlags::from_bits: None as soon as a bit outside the named flags is set.
from_bits(bits) ==
    IF \E k \in 0..7 : Bit(bits, k) = 1 /\ Bit(ALL_FLAGS, k) = 0
    THEN None
    ELSE bits

\* ErrorFlags::complement: the named bits that are not set.
complement(flags) ==
    LET keep(k) == IF Bit(ALL_FLAGS, k) = 1 /\ Bit(flags, k) = 0 THEN 2 ^ k ELSE 0
    IN keep(0) + keep(1) + keep(2) + keep(3) + keep(4) + keep(5) + keep(6) + keep(7)

ERROR_FLAGS == complement(WARNING_FLAGS)

\* ErrorFlags::intersects
intersects(a, b) == \E k \in 0..7 : Bit(a, k) = 1 /\ Bit(b, k) = 1

\* MotorError::check on Response.warning (an Option<ErrorFlags>).
MotorErrorCheck(flags) ==
    IF flags = None THEN [ok |-> TRUE, flags |-> None]
    ELSE IF intersects(flags, ERROR_FLAGS) THEN [ok |-> FALSE, flags |-> flags]
    ELSE [ok |-> TRUE, flags |-> flags]

\* ------------------------------------------------------------ header search
\* A header search that stops at the first 0xFF byte, whatever follows it.
find_header_first_ff(buffer) ==
    LET n == Len(buffer)
        hits == {i \in 0..(n - 1) : At(buffer, i) = 255}
    IN IF hits = {} THEN n ELSE CHOOSE i \in hits : \A j \in hits : i <= j

\* A header search that only takes a complete header prefix: a 0xFF at the very
\* end of the buffer counts as garbage.
find_header_whole_only(buffer) ==
    LET n == Len(buffer)
        hits == {i \in 0..(n - 2) : StartsWith(Slice(buffer, i, n), HEADER_PREFIX)}
    IN IF hits = {} THEN n ELSE CHOOSE i \in hits : \A j \in hits : i <= j

\* find_header: the first offset where the header prefix, or the part of it
\* that still fits before the end of the buffer, starts.
find_header(buffer) ==
    LET n == Len(buffer)
        hits == {i \in 0..(n - 1) :
                   StartsWith(Slice(buffer, i, n),
                              Slice(HEADER_PREFIX, 0, Min(Len(HEADER_PREFIX), n - i)))}
    IN IF hits = {} THEN n ELSE CHOOSE i \in hits : \A j \in hits : i <= j

\* consume_read_bytes that leaves used_bytes as it was.
consume_read_bytes_keep_used(buf, rl, ub, len) ==
    [buf |-> Slice(CopyWithin(buf, len, rl), 0, rl - len),
     used_bytes |-> ub,
     read_len |-> rl - len,
     shift |-> len]

\* Bus::consume_read_bytes.  The model keeps read_buffer[..read_len], the only
\* part of the buffer the code ever reads: after copy_within the cells from the
\* new read_len on are dead, and are dropped from the sequence.
consume_read_bytes(buf, rl, ub, len) ==
    [buf |-> Slice(CopyWithin(buf, len, rl), 0, rl - len),
     used_bytes |-> IF ub > len THEN ub - len ELSE 0,
     read_len |-> rl - len,
     shift |-> len]

\* A remove_garbage that drops the used bytes and leaves what follows them.
remove_garbage_used_only(buf, rl, ub) ==
    LET garbage_len == 0
        c == consume_read_bytes(buf, rl, ub, ub + garbage_len)
    IN [buf |-> c.buf, used_bytes |-> c.used_bytes, read_len |-> c.read_len,
        shift |-> c.shift, garbage_len |-> garbage_len]

\* Bus::remove_garbage
remove_garbage(buf, rl, ub) ==
    LET garbage_len == find_header(Slice(buf, ub, rl))
        c == consume_read_bytes(buf, rl, ub, ub + garbage_len)
    IN [buf |-> c.buf, used_bytes |-> c.used_bytes, read_len |-> c.read_len,
        shift |-> c.shift, garbage_len |-> garbage_len]

\* ------------------------------------------------------------------ encode
\* The parameter callbacks handed to make_packet, applied to the parameter
\* region &mut buffer[5..][..parameter_count].
\* ping, save_config: |_| Ok(())
EncodeNone(region) == [panic |-> FALSE, params |-> region]

\* read_raw: buffer[0] = addr
EncodeReadRaw(region, addr) ==
    IF Len(region) = 0 THEN [panic |-> TRUE, params |-> region]
    ELSE [panic |-> FALSE, params |-> [region EXCEPT ![1] = addr]]

\* write_raw: buffer[0] = register; buffer[1..].copy_from_slice(data)
EncodeWriteRaw(region, register, data) ==
    IF Len(region) = 0 \/ Len(region) - 1 # Len(data)
    THEN [panic |-> TRUE, params |-> region]
    ELSE [panic |-> FALSE, params |-> <<register>> \o data]

\* multi_write: for each entry, buffer = &mut buffer[offset..];
\* buffer[0] = address; buffer[1..][..5].copy_from_slice(&d.data); offset += 5
RECURSIVE EncodeMultiWrite(_, _, _)
EncodeMultiWrite(region, entries, offset) ==
    IF entries = <<>> THEN [panic |-> FALSE, params |-> region]
    ELSE LET d == Head(entries)
             rest == Len(region) - offset
         IN IF rest < 1 THEN [panic |-> TRUE, params |-> region]
            ELSE IF rest - 1 < 5 THEN [panic |-> TRUE, params |-> region]
            ELSE IF Len(d.data) # 5 THEN [panic |-> TRUE, params |-> region]
            ELSE EncodeMultiWrite(
                   [i \in 1..Len(region) |->
                      IF i = offset + 1 THEN d.address
                      ELSE IF i > offset + 1 /\ i <= offset + 6 THEN d.data[i - offset - 1]
                      ELSE region[i]],
                   Tail(entries), offset + 5)

\* A direct caller of make_packet (tests::make_packet): the callback copies
\* the caller's parameter bytes into the region.
EncodeCopy(region, data) ==
    IF Len(region) # Len(data) THEN [panic |-> TRUE, params |-> region]
    ELSE [panic |-> FALSE, params |-> data]

\* The callback an operation passes to write_packet.
encode_parameters(o, region) ==
    CASE o.kind = "read" -> EncodeReadRaw(region, o.addr)
      [] o.kind = "write" -> EncodeWriteRaw(region, o.addr, o.data)
      [] o.kind = "multi_write" -> EncodeMultiWrite(region, o.entries, 0)
      [] o.kind = "make_packet" -> EncodeCopy(region, o.data)
      [] OTHER -> EncodeNone(region)

\* The parameter_count an operation passes to write_packet.
parameter_count(o) ==
    CASE o.kind = "read" -> 1
      [] o.kind = "write" -> Len(o.data) + 1
      [] o.kind = "multi_write" -> Len(o.entries) * 5
      [] o.kind = "make_packet" -> Len(o.data)
      [] OTHER -> 0

\* An encoding that puts the most significant byte first.
to_le_bytes_be(v) ==
    <<(v \div 16777216) % 256, (v \div 65536) % 256, (v \div 256) % 256, v % 256>>

\* u32::to_le_bytes and f32::to_le_bytes on the 32-bit pattern of the value.  A
\* pattern with bit 31 set is held as the negative integer with the same bits in
\* two's complement; \div rounds down, so the bytes are those of the pattern.
to_le_bytes(v) ==
    <<v % 256, (v \div 256) % 256, (v \div 65536) % 256, (v \div 16777216) % 256>>

\* A decoding that takes the first byte as the most significant one.
from_le_bytes_be(b) ==
    b[4] + 256 * b[3] + 65536 * b[2]
    + 16777216 * (IF b[1] >= 128 THEN b[1] - 256 ELSE b[1])

\* u32::from_le_bytes and f32::from_le_bytes: the 32-bit pattern of the four
\* bytes (negative when bit 31 is set, as in to_le_bytes).
from_le_bytes(b) ==
    b[1] + 256 * b[2] + 65536 * b[3]
    + 16777216 * (IF b[4] >= 128 THEN b[4] - 256 ELSE b[4])

\* WritableRegister::encode_bytes
encode_bytes(data) == to_le_bytes(data)

\* WritableRegister::encode: the size check, then buffer[..N] is overwritten.
encode(data, buffer) ==
    LET c == BufferTooSmallCheck(4, Len(buffer))
    IN IF ~c.ok
       THEN [ok |-> FALSE, buffer |-> buffer, required_size |-> c.required_size,
             total_size |-> c.total_size]
       ELSE [ok |-> TRUE,
             buffer |-> [i \in 1..Len(buffer) |->
                           IF i <= 4 THEN to_le_bytes(data)[i] ELSE buffer[i]],
             required_size |-> 0, total_size |-> 0]

\* The length byte make_packet stores: len as u8.
LenByte(len) == len % 256

\* make_packet that writes the header before it checks the size.
make_packet_header_first(buffer, packet_id, instruction_id, p_count, o) ==
    IF BufferTooSmallCheck(HEADER_SIZE + p_count + 2, Len(buffer)).ok
    THEN [kind |-> "Ok", buffer |-> buffer, len |-> 0, required_size |-> 0, total_size |-> 0]
    ELSE [kind |-> "BufferTooSmall",
          buffer |-> [i \in 1..Len(buffer) |->
                        CASE i = 3 -> packet_id
                          [] i = 4 -> LenByte(p_count + 2)
                          [] i = 5 -> instruction_id
                          [] OTHER -> buffer[i]],
          len |-> 0,
          required_size |-> HEADER_SIZE + p_count + 2, total_size |-> Len(buffer)]

\* Bus::make_packet
make_packet(buffer, packet_id, instruction_id, p_count, o) ==
    LET len == p_count + 2
        chk == BufferTooSmallCheck(HEADER_SIZE + len, Len(buffer))
        region == Slice(buffer, 5, 5 + p_count)
        cb == encode_parameters(o, region)
        checksum_index == HEADER_SIZE + p_count + 1
        b1 == [i \in 1..Len(buffer) |->
                 CASE i = 1 -> 255
                   [] i = 2 -> 255
                   [] i = 3 -> packet_id
                   [] i = 4 -> LenByte(len)
                   [] i = 5 -> instruction_id
                   [] i > 5 /\ i <= 5 + p_count -> cb.params[i - 5]
                   [] OTHER -> buffer[i]]
        b2 == [b1 EXCEPT ![checksum_index + 1] =
                 calculate_checksum(Slice(b1, 2, checksum_index))]
    IN IF ~chk.ok
       THEN [kind |-> "BufferTooSmall", buffer |-> buffer, len |-> 0,
             required_size |-> chk.required_size, total_size |-> chk.total_size]
       ELSE IF cb.panic
       THEN [kind |-> "Panic", buffer |-> buffer, len |-> 0,
             required_size |-> 0, total_size |-> 0]
       ELSE [kind |-> "Ok", buffer |-> b2, len |-> checksum_index + 1,
             required_size |-> 0, total_size |-> 0]

\* write_packet without the reset of lines 242-243.
WritePacketReset_none(rl, ub) == [read_len |-> rl, used_bytes |-> ub]

\* write_packet that zeroes used_bytes only.
WritePacketReset_used_only(rl, ub) == [read_len |-> rl, used_bytes |-> 0]

\* write_packet, lines 242-243: the cursors after a successful encode.
WritePacketReset(rl, ub) == [read_len |-> 0, used_bytes |-> 0]

\* ------------------------------------------------------------------ timing
\* The nanoseconds of one second (the factor of bus.rs line 373).
NANOS_PER_SEC == 1000000000

\* core::time::Duration as whole seconds and nanoseconds below one second.
Duration(secs, nanos) == [secs |-> secs, nanos |-> nanos]

\* No duration: nothing computed yet, or the computation panicked.
NoDuration == Duration(None, None)

\* Duration::new(secs, nanos): a nanosecond count of one second or more is
\* carried over into the seconds.
DurationNew(secs, nanos) ==
    Duration(secs + nanos \div NANOS_PER_SEC, nanos % NANOS_PER_SEC)

\* Duration::from_millis
from_millis(millis) == Duration(millis \div 1000, (millis % 1000) * 1000000)

\* Duration + Duration
DurationAdd(a, b) == DurationNew(a.secs + b.secs, a.nanos + b.nanos)

\* x + y for x, y < b, as the carry and the remainder of the division by b.
\* The sum itself is never formed, so that b may be any 31-bit value.
AddMod(x, y, b) ==
    IF x >= b - y THEN [c |-> 1, r |-> x - (b - y)] ELSE [c |-> 0, r |-> x + y]

\* Quotient and remainder of a * m divided by b, for a < b and m < 2^(k+1).
\* The code forms the product in 64 bits; here the bits of m are taken one at a
\* time from the top, which gives the same quotient and remainder while every
\* intermediate value stays below 2^31.
RECURSIVE MulDivMod(_, _, _, _, _, _)
MulDivMod(a, m, b, k, q, r) ==
    IF k < 0 THEN [q |-> q, r |-> r]
    ELSE LET d == AddMod(r, r, b)
             e == IF (m \div 2^k) % 2 = 1 THEN AddMod(d.r, a, b)
                  ELSE [c |-> 0, r |-> d.r]
         IN MulDivMod(a, m, b, k - 1, 2 * q + d.c + e.c, e.r)

\* (subsec_bits * 1_000_000_000).div_ceil(baud_rate)
mul_div_ceil(subsec_bits, baud_rate) ==
    LET p == MulDivMod(subsec_bits, NANOS_PER_SEC, baud_rate, 29, 0, 0)
    IN p.q + (IF p.r = 0 THEN 0 ELSE 1)

\* A transfer time whose sub-second part is rounded down.
message_transfer_time_floor(message_size, baud_rate) ==
    IF baud_rate = 0 THEN NoDuration
    ELSE DurationNew((message_size * 10) \div baud_rate,
                     MulDivMod((message_size * 10) % baud_rate, NANOS_PER_SEC,
                               baud_rate, 29, 0, 0).q)

\* message_transfer_time; a baud rate of 0 is a division by zero (panic).
message_transfer_time(message_size, baud_rate) ==
    IF baud_rate = 0 THEN NoDuration
    ELSE LET bits == message_size * 10
             secs == bits \div baud_rate
             subsec_bits == bits % baud_rate
             nanos == mul_div_ceil(subsec_bits, baud_rate)
         IN DurationNew(secs, nanos)

\* read_response, line 257: the timeout handed to read_response_timeout.
read_response_timeout_of(expected_parameters, baud) ==
    DurationAdd(message_transfer_time(expected_parameters, baud), from_millis(1))

\* The expected_parameters argument an operation hands to read_response:
\* ping passes 4, read_raw passes 5 through transfer_single; a direct call is
\* modelled with the argument of ping.
expected_parameters(o) ==
    IF o.kind = "read" THEN 5 ELSE 4

\* ------------------------------------------------------------------ decode
\* A header check that breaks the loop only once a byte beyond the message is
\* buffered.
check_header_one_more(g, cap) ==
    IF g.read_len > HEADER_SIZE
    THEN IF ~BufferTooSmallCheck(HEADER_SIZE + At(g.buf, PACKET_LEN), cap).ok
         THEN [status |-> "full", message_len |-> 0,
               required_size |-> HEADER_SIZE + At(g.buf, PACKET_LEN), total_size |-> cap]
         ELSE IF g.read_len > HEADER_SIZE + At(g.buf, PACKET_LEN)
         THEN [status |-> "complete", message_len |-> HEADER_SIZE + At(g.buf, PACKET_LEN),
               required_size |-> 0, total_size |-> 0]
         ELSE [status |-> "read", message_len |-> 0, required_size |-> 0, total_size |-> 0]
    ELSE [status |-> "read", message_len |-> 0, required_size |-> 0, total_size |-> 0]

\* The loop of read_packet_deadline after remove_garbage returned g: break
\* with a complete message, fail on a length that cannot fit, or read more.
check_header(g, cap) ==
    IF g.read_len > HEADER_SIZE
    THEN IF ~BufferTooSmallCheck(HEADER_SIZE + At(g.buf, PACKET_LEN), cap).ok
         THEN [status |-> "full", message_len |-> 0,
               required_size |-> HEADER_SIZE + At(g.buf, PACKET_LEN), total_size |-> cap]
         ELSE IF g.read_len >= HEADER_SIZE + At(g.buf, PACKET_LEN)
         THEN [status |-> "complete", message_len |-> HEADER_SIZE + At(g.buf, PACKET_LEN),
               required_size |-> 0, total_size |-> 0]
         ELSE [status |-> "read", message_len |-> 0, required_size |-> 0, total_size |-> 0]
    ELSE [status |-> "read", message_len |-> 0, required_size |-> 0, total_size |-> 0]

\* The outcome of read_packet_deadline, in one shape for every case.
Rpd(kind, view, message_len, v1, v2) ==
    [kind |-> kind, view |-> view, message_len |-> message_len, v1 |-> v1, v2 |-> v2]

NoRpd == Rpd("none", <<>>, 0, 0, 0)

\* A read_packet_deadline that shifts an accepted message out of the buffer
\* before it returns.
finish_packet_eager(buf, rl, ub, message_len) ==
    IF At(buf, message_len - 1) # calculate_checksum(Slice(buf, 2, message_len - 1))
    THEN [c |-> consume_read_bytes(buf, rl, ub, message_len),
          rpd |-> Rpd("InvalidChecksum", <<>>, message_len, At(buf, message_len - 1),
                      calculate_checksum(Slice(buf, 2, message_len - 1)))]
    ELSE [c |-> consume_read_bytes(buf, rl, ub, message_len),
          rpd |-> Rpd("Packet", Slice(buf, 0, message_len - 1), message_len, 0, 0)]

\* read_packet_deadline after the loop: verify the checksum of a complete
\* message, then consume it (mismatch) or mark it used (match).
finish_packet(buf, rl, ub, message_len) ==
    IF At(buf, message_len - 1) # calculate_checksum(Slice(buf, 2, message_len - 1))
    THEN [c |-> consume_read_bytes(buf, rl, ub, message_len),
          rpd |-> Rpd("InvalidChecksum", <<>>, message_len, At(buf, message_len - 1),
                      calculate_checksum(Slice(buf, 2, message_len - 1)))]
    ELSE [c |-> [buf |-> buf, used_bytes |-> ub + message_len, read_len |-> rl, shift |-> 0],
          rpd |-> Rpd("Packet", Slice(buf, 0, message_len - 1), message_len, 0, 0)]

\* One pass of read_packet_deadline between two transport reads: g is what
\* remove_garbage returned, h what the header check decided.  Gives the bus
\* fields, the bytes shifted out (as garbage or used, then as a rejected
\* message) and the outcome, "read" standing for another transport read.
loop_pass(g, h) ==
    IF h.status = "read"
    THEN [buf |-> g.buf, read_len |-> g.read_len, used_bytes |-> g.used_bytes,
          shift |-> g.shift, shift2 |-> 0, garbage_len |-> g.garbage_len,
          rpd |-> Rpd("read", <<>>, 0, 0, 0)]
    ELSE IF h.status = "full"
    THEN [buf |-> g.buf, read_len |-> g.read_len, used_bytes |-> g.used_bytes,
          shift |-> g.shift, shift2 |-> 0, garbage_len |-> g.garbage_len,
          rpd |-> Rpd("BufferFull", <<>>, 0, h.required_size, h.total_size)]
    ELSE [buf |-> finish_packet(g.buf, g.read_len, g.used_bytes, h.message_len).c.buf,
          read_len |-> finish_packet(g.buf, g.read_len, g.used_bytes, h.message_len).c.read_len,
          used_bytes |-> finish_packet(g.buf, g.read_len, g.used_bytes, h.message_len).c.used_bytes,
          shift |-> g.shift,
          shift2 |-> finish_packet(g.buf, g.read_len, g.used_bytes, h.message_len).c.shift,
          garbage_len |-> g.garbage_len,
          rpd |-> finish_packet(g.buf, g.read_len, g.used_bytes, h.message_len).rpd]

\* The loop of read_packet_deadline from remove_garbage on.
poll(buf, rl, ub, cap) ==
    loop_pass(remove_garbage(buf, rl, ub),
              check_header(remove_garbage(buf, rl, ub), cap))

\* The outcome of an operation, in one shape for every case.
Res(kind, motor_id, warning, data, v1, v2) ==
    [kind |-> kind, motor_id |-> motor_id, warning |-> warning, data |-> data,
     v1 |-> v1, v2 |-> v2]

NoResult == Res("none", None, None, <<>>, 0, 0)

\* read_response_timeout: the Response built from the packet view.  Indexing
\* packet[PACKET_ERROR] and slicing packet[5..] abort on a view that is too short.
read_response_timeout(packet) ==
    IF Len(packet) <= PACKET_ID THEN Res("Panic", None, None, <<>>, 0, 0)
    ELSE IF Len(packet) <= PACKET_ERROR THEN Res("Panic", None, None, <<>>, 0, 0)
    ELSE IF Len(packet) < 5 THEN Res("Panic", None, None, <<>>, 0, 0)
    ELSE Res("Ok", At(packet, PACKET_ID), from_bits(At(packet, PACKET_ERROR)),
             Slice(packet, 5, Len(packet)), 0, 0)

\* A transfer_single that checks the error flags before the packet id.
transfer_single_flags_first(response, packet_id) ==
    LET idc == InvalidPacketIdCheck(response.motor_id, packet_id)
        mec == MotorErrorCheck(response.warning)
    IN IF response.kind # "Ok" THEN response
       ELSE IF ~mec.ok
       THEN Res("MotorError", None, None, <<>>, mec.flags, 0)
       ELSE IF ~idc.ok
       THEN Res("InvalidPacketId", None, None, <<>>, idc.actual, idc.expected)
       ELSE response

\* transfer_single after read_response: the packet-id check, then the
\* motor-error check.
transfer_single(response, packet_id) ==
    LET idc == InvalidPacketIdCheck(response.motor_id, packet_id)
        mec == MotorErrorCheck(response.warning)
    IN IF response.kind # "Ok" THEN response
       ELSE IF ~idc.ok
       THEN Res("InvalidPacketId", None, None, <<>>, idc.actual, idc.expected)
       ELSE IF ~mec.ok
       THEN Res("MotorError", None, None, <<>>, mec.flags, 0)
       ELSE response

\* A decode that takes the first four bytes of a longer slice.
decode_lenient(buffer) ==
    IF Len(buffer) < 4
    THEN [ok |-> FALSE, value |-> 0, actual |-> Len(buffer), expected |-> 4]
    ELSE [ok |-> TRUE, value |-> from_le_bytes(buffer), actual |-> Len(buffer),
          expected |-> 4]

\* Register::decode for a register whose Inner is 4 bytes wide.
decode(buffer) ==
    LET c == InvalidParameterCountCheck(Len(buffer), 4)
    IN IF ~c.ok THEN [ok |-> FALSE, value |-> 0, actual |-> c.actual, expected |-> c.expected]
       ELSE [ok |-> TRUE, value |-> from_le_bytes(buffer), actual |-> c.actual,
             expected |-> c.expected]

\* Bus::read after read_raw: decode the data of a successful response.
read_decode(response) ==
    LET d == decode(response.data)
    IN IF response.kind # "Ok" THEN response
       ELSE IF ~d.ok
       THEN Res("InvalidParameterCount", None, None, <<>>, d.actual, d.expected)
       ELSE Res("Ok", response.motor_id, response.warning, response.data, d.value, 0)

\* What an operation returns once read_packet_deadline has returned r.
\* ping and read_response hand the Response back unchecked; read goes through
\* transfer_single and decode; the loop-back of make_packet calls
\* read_packet_deadline itself and gets the packet view.
operation_result(o, r) ==
    IF r.kind = "BufferFull" THEN Res("BufferFull", None, None, <<>>, r.v1, r.v2)
    ELSE IF r.kind = "Io" THEN Res("Io", None, None, <<>>, 0, 0)
    ELSE IF r.kind = "InvalidChecksum"
    THEN Res("InvalidChecksum", None, None, <<>>, r.v1, r.v2)
    ELSE IF o.kind = "make_packet" THEN Res("Packet", None, None, r.view, 0, 0)
    ELSE IF o.kind = "read"
    THEN read_decode(transfer_single(read_response_timeout(r.view), o.id))
    ELSE read_response_timeout(r.view)

\* ------------------------------------------------------------------- state
VARIABLES
    read_cap,      \* Bus.read_buffer.len(), the capacity of the read buffer
    read_buffer,   \* Bus.read_buffer[..read_len], the valid bytes
    read_len,      \* Bus.read_len
    used_bytes,    \* Bus.used_bytes
    write_buffer,  \* Bus.write_buffer
    line,          \* bytes the serial port has still to deliver to read()
    wire,          \* the slice handed to the last write_all
    pc,            \* where the running operation stands
    op,            \* the running (or last) operation and its arguments
    result,        \* what the last operation returned
    rpd,           \* what the last read_packet_deadline returned
    n_discard,     \* discard_input_buffer calls of the running operation
    n_write,       \* write_all calls of the running operation
    n_read,        \* whether the running operation has called read()
    last_read,     \* how the last transport read of the running operation returned
    fresh,         \* per read-buffer cell: filled by a read() of this exchange
    skipped,       \* garbage bytes dropped by this read_packet_deadline
    scen,          \* what the device put on the line for this exchange
    awaiting,      \* a request went out and no response read has returned since
    io_error,      \* the transport call of the running operation that failed
    nops,          \* operations started
    baud_rate,     \* Bus.baud_rate
    transfer,      \* the last message_transfer_time call: arguments and result
    deadline,      \* the timeout of the deadline the running read_response made
    n_deadline,    \* make_deadline calls of the running operation
    read_deadline, \* the deadline handed to the last transport read
    codec          \* the last call of a register's encode or decode function

vars == <<read_cap, read_buffer, read_len, used_bytes, write_buffer, line, wire, pc, op,
          result, rpd, n_discard, n_write, n_read, last_read, fresh, skipped, scen, awaiting,
          io_error, nops, baud_rate, transfer, deadline, n_deadline, read_deadline,
          codec>>

bus_vars == <<read_cap, baud_rate, read_buffer, read_len, used_bytes, write_buffer, fresh>>

time_vars == <<transfer, deadline, n_deadline, read_deadline>>

\* A call of a codec function: the value and the slice it was given, whether
\* it returned Ok, the slice afterwards, the decoded value, the error's fields.
Codec(kind, value, buffer, ok, out, decoded, v1, v2) ==
    [kind |-> kind, value |-> value, buffer |-> buffer, ok |-> ok, out |-> out,
     decoded |-> decoded, v1 |-> v1, v2 |-> v2]

NoCodec == Codec("none", 0, <<>>, TRUE, <<>>, 0, 0, 0)

\* -------------------------------------------------------------- environment
\* A status packet as a device puts it on the wire (bus.rs, packet layout).
StatusPacket(id, flag, data) ==
    LET body == <<id, Len(data) + 2, flag>> \o data
    IN HEADER_PREFIX \o body \o <<calculate_checksum(body)>>

\* The same packet with its checksum byte off by one.
BadChecksum(p) == [p EXCEPT ![Len(p)] = (p[Len(p)] + 1) % 256]

Scenario(g, p, t, wf) == [g |-> g, p |-> p, t |-> t, wf |-> wf]

NoScenario == Scenario(<<>>, <<>>, <<>>, FALSE)

Stream(sc) == sc.g \o sc.p \o sc.t

\* Bytes of line noise in front of the reply.
Garbage == {<<>>, <<7, 255, 0>>, <<255>>, <<255, 255, 1>>}

\* Replies a device sends: well-formed status packets, without data (the echo
\* of a ping) and with the four data bytes of a register.
Replies ==
    {StatusPacket(1, 0, <<>>), StatusPacket(2, 0, <<>>), StatusPacket(2, 4, <<>>)}
    \cup {StatusPacket(1, f, <<0, 0, 160, 64>>) : f \in {0, 1, 4, 132}}

\* Frames that are not well-formed: a wrong checksum (also on a frame from
\* another motor that reports an error flag), a length byte of 1 or 0 whose
\* "checksum" byte happens to verify, a length byte beyond the capacity.
BadFrames ==
    {BadChecksum(StatusPacket(1, 0, <<>>)),
     BadChecksum(StatusPacket(2, 4, <<>>)),
     <<255, 255, 1, 1, 253>>,
     <<255, 255, 255, 0, 9>>,
     <<255, 255, 1, 0, 9>>,
     <<255, 255, 1, 250, 9>>}

\* What follows the first frame on the line.
Tails == {<<>>, StatusPacket(1, 1, <<>>)}

Scenarios ==
    {Scenario(g, StatusPacket(1, 0, <<>>), t, TRUE) : g \in Garbage, t \in Tails}
    \cup {Scenario(<<>>, p, <<>>, TRUE) : p \in Replies}
    \cup {Scenario(<<>>, p, t, FALSE) : p \in BadFrames, t \in Tails}

\* ---------------------------------------------------------------- requests
Op(kind, id, inst, addr, data, entries) ==
    [kind |-> kind, id |-> id, inst |-> inst, addr |-> addr, data |-> data,
     entries |-> entries]

NoOp == Op("none", 0, 0, 0, <<>>, <<>>)

MotorIds == {1}

\* registers::status::GoalPos (RW, StatusRegister 0x05) and
\* registers::config::PGainPos (RW, ConfigRegister 0x0D).
Registers ==
    {[read_inst |-> InstReadStat, write_inst |-> InstWriteStat, address |-> 5],
     [read_inst |-> InstReadCfg, write_inst |-> InstWriteCfg, address |-> 13]}

\* 5.0_f32 as a bit pattern.
Values == {1084227584}

\* MultiWrite { address, data: [u8; 4] }
MultiWriteEntry(r, v) ==
    [address |-> r.address, inst |-> r.write_inst, data |-> encode_bytes(v)]

\* The operations that write a packet.
WriteOps ==
    {Op("ping", i, InstPing, 0, <<>>, <<>>) : i \in MotorIds}
    \cup {Op("read", i, r.read_inst, r.address, <<>>, <<>>) : i \in MotorIds, r \in Registers}
    \cup {Op("write", i, r.write_inst, r.address, encode_bytes(v), <<>>) :
            i \in MotorIds, r \in Registers, v \in Values}
    \cup {Op("save_config", i, InstSaveCfg, 0, <<>>, <<>>) : i \in MotorIds}
    \cup {Op("multi_write", i, InstWriteCfg, 0, <<>>, es) :
            i \in MotorIds,
            es \in {<<>>,
                    <<MultiWriteEntry(CHOOSE r \in Registers : r.address = 13, 1084227584)>>,
                    <<MultiWriteEntry(CHOOSE r \in Registers : r.address = 13, 1084227584),
                      MultiWriteEntry(CHOOSE r \in Registers : r.address = 13, 0)>>}}

\* The baud rates a bus is opened with or set to.
BaudRates == {9600, 1000000}

\* A call of message_transfer_time: its arguments and the Duration it returned.
Transfer(message_size, baud, time) ==
    [message_size |-> message_size, baud_rate |-> baud, time |-> time]

NoTransfer == Transfer(None, None, NoDuration)

\* Whether the operation reads a response after writing.
reads_response(o) == o.kind \in {"ping", "read"}

\* ------------------------------------------------------------------- Init
Init ==
    /\ read_cap = ReadCap
    /\ read_buffer = <<>>
    /\ read_len = 0
    /\ used_bytes = 0
    /\ write_buffer = [i \in 1..WriteCap |-> IF i <= 2 THEN HEADER_PREFIX[i] ELSE 0]
    /\ line = <<>>
    /\ wire = <<>>
    /\ pc = "idle"
    /\ op = NoOp
    /\ result = NoResult
    /\ rpd = NoRpd
    /\ n_discard = 0
    /\ n_write = 0
    /\ n_read = FALSE
    /\ last_read = "none"
    /\ fresh = <<>>
    /\ skipped = 0
    /\ scen = NoScenario
    /\ awaiting = FALSE
    /\ io_error = "none"
    /\ nops = 0
    /\ baud_rate \in BaudRates
    /\ transfer = NoTransfer
    /\ deadline = NoDuration
    /\ n_deadline = 0
    /\ read_deadline = NoDuration
    /\ codec = NoCodec

\* ----------------------------------------------------------------- actions
\* read_response up to its call of read_packet_deadline (lines 257 and 262):
\* the timeout is computed from the argument and the current baud rate, and one
\* deadline is made from it.
EnterReadResponse(o) ==
    /\ transfer' = Transfer(expected_parameters(o), baud_rate,
                            message_transfer_time(expected_parameters(o), baud_rate))
    /\ deadline' = read_response_timeout_of(expected_parameters(o), baud_rate)
    /\ n_deadline' = 1

\* The reading side of an operation from the entry of read_packet_deadline or
\* from the return of a transport read, up to the next transport read or the
\* return to the caller.  buf, rl, ub, fr are the buffer, the cursors and the
\* cell marks at that point, sk the garbage bytes dropped so far.
ReadStep(buf, rl, ub, fr, sk) ==
    \E p \in {poll(buf, rl, ub, read_cap)} :
        /\ skipped' = sk + p.garbage_len
        /\ read_buffer' = p.buf
        /\ read_len' = p.read_len
        /\ used_bytes' = p.used_bytes
        /\ fresh' = Slice(fr, p.shift + p.shift2, rl)
        /\ IF p.rpd.kind = "read"
           THEN /\ pc' = "read"
                /\ rpd' = NoRpd
                /\ result' = NoResult
           ELSE /\ rpd' = p.rpd
                /\ result' = operation_result(op', p.rpd)
                /\ pc' = IF result'.kind = "Panic" THEN "panicked" ELSE "idle"

\* read_packet_deadline from its first line: the capacity check, then the loop.
EnterRead(buf, rl, ub, fr, sk) ==
    LET chk == BufferTooSmallCheck(HEADER_SIZE + 2, read_cap)
    IN IF ~chk.ok
       THEN /\ rpd' = Rpd("BufferFull", <<>>, 0, chk.required_size, chk.total_size)
            /\ result' = operation_result(op', rpd')
            /\ read_buffer' = buf
            /\ read_len' = rl
            /\ used_bytes' = ub
            /\ fresh' = fr
            /\ skipped' = sk
            /\ pc' = "idle"
       ELSE ReadStep(buf, rl, ub, fr, sk)

\* An operation that writes a packet is called: make_packet runs, and on
\* success the cursors are reset; the next step is discard_input_buffer.
Call(o) ==
    /\ pc = "idle"
    /\ nops < MaxOps
    /\ nops' = nops + 1
    /\ op' = o
    /\ n_discard' = 0
    /\ n_write' = 0
    /\ n_read' = FALSE
    /\ last_read' = "none"
    /\ skipped' = 0
    /\ rpd' = NoRpd
    /\ scen' = NoScenario
    /\ awaiting' = awaiting
    /\ io_error' = "none"
    /\ transfer' = NoTransfer
    /\ deadline' = NoDuration
    /\ n_deadline' = 0
    /\ read_deadline' = NoDuration
    /\ codec' = codec
    /\ LET mp == make_packet(write_buffer, o.id, o.inst, parameter_count(o), o)
           rs == WritePacketReset(read_len, used_bytes)
       IN CASE mp.kind = "BufferTooSmall" ->
                 /\ result' = Res("WriteBufferTooSmall", None, None, <<>>,
                                  mp.required_size, mp.total_size)
                 /\ pc' = "idle"
                 /\ UNCHANGED <<bus_vars, line, wire>>
            [] mp.kind = "Panic" ->
                 /\ result' = Res("Panic", None, None, <<>>, 0, 0)
                 /\ pc' = "panicked"
                 /\ UNCHANGED <<bus_vars, line, wire>>
            [] OTHER ->
                 /\ write_buffer' = mp.buffer
                 /\ wire' = Slice(mp.buffer, 0, mp.len)
                 /\ read_len' = rs.read_len
                 /\ used_bytes' = rs.used_bytes
                 /\ read_buffer' = Slice(read_buffer, 0, rs.read_len)
                 /\ fresh' = [i \in 1..rs.read_len |-> FALSE]
                 /\ result' = NoResult
                 /\ pc' = "discard"
                 /\ UNCHANGED <<read_cap, baud_rate, line>>

\* discard_input_buffer returns Ok: the pending input is gone.
DiscardOk ==
    /\ pc = "discard"
    /\ line' = <<>>
    /\ n_discard' = n_discard + 1
    /\ pc' = "write_all"
    /\ UNCHANGED <<bus_vars, wire, op, result, rpd, n_write, n_read, last_read, skipped, scen,
                   awaiting, io_error, nops, time_vars, codec>>

\* A failed discard_input_buffer that is ignored: the operation goes on to
\* write_all.
DiscardErr_ignored ==
    /\ pc = "discard"
    /\ n_discard' = n_discard + 1
    /\ pc' = "write_all"
    /\ io_error' = "discard"
    /\ UNCHANGED <<bus_vars, line, wire, op, result, rpd, n_write, n_read, last_read, skipped, scen,
                   awaiting, nops, time_vars, codec>>

\* discard_input_buffer fails: WriteError::DiscardBuffer.
DiscardErr ==
    /\ pc = "discard"
    /\ n_discard' = n_discard + 1
    /\ result' = Res("DiscardBuffer", None, None, <<>>, 0, 0)
    /\ pc' = "idle"
    /\ io_error' = "discard"
    /\ UNCHANGED <<bus_vars, line, wire, op, rpd, n_write, n_read, last_read, skipped, scen,
                   awaiting, nops, time_vars, codec>>

\* write_all returns Ok and the device answers with sc.  An operation without
\* a response returns; the others enter read_packet_deadline.
WriteAllOk(sc) ==
    /\ pc = "write_all"
    /\ n_write' = n_write + 1
    /\ scen' = sc
    /\ line' = line \o Stream(sc)
    /\ UNCHANGED <<read_cap, baud_rate, write_buffer, wire, op, n_discard, n_read, last_read, io_error, nops>>
    /\ read_deadline' = read_deadline
    /\ codec' = codec
    /\ IF reads_response(op)
       THEN /\ EnterReadResponse(op)
            /\ EnterRead(read_buffer, read_len, used_bytes, fresh, 0)
       ELSE /\ result' = Res("Ok", None, None, <<>>, 0, 0)
            /\ pc' = "idle"
            /\ UNCHANGED <<read_buffer, read_len, used_bytes, fresh, rpd, skipped,
                           transfer, deadline, n_deadline>>
    /\ awaiting' = (rpd'.kind = "none")

\* write_all fails: WriteError::Write.
WriteAllErr ==
    /\ pc = "write_all"
    /\ n_write' = n_write + 1
    /\ result' = Res("Write", None, None, <<>>, 0, 0)
    /\ pc' = "idle"
    /\ io_error' = "write"
    /\ UNCHANGED <<bus_vars, line, wire, op, rpd, n_discard, n_read, last_read, skipped, scen,
                   awaiting, nops, time_vars, codec>>

\* The sizes a transport read may return when avail bytes are pending and the
\* offered slice has room bytes.
ChunkSizes(avail, room) ==
    {n \in 1..Min(avail, room) : n <= MaxChunk \/ n = Min(avail, room)}

\* serial_port.read returns Ok(n), n > 0: n bytes land at read_buffer[read_len..].
ReadData(n) ==
    /\ pc = "read"
    /\ n \in ChunkSizes(Len(line), read_cap - read_len)
    /\ line' = SubSeq(line, n + 1, Len(line))
    /\ n_read' = TRUE
    /\ last_read' = "data"
    /\ read_deadline' = deadline
    /\ UNCHANGED <<transfer, deadline, n_deadline, codec>>
    /\ UNCHANGED <<read_cap, baud_rate, write_buffer, wire, op, n_discard, n_write, scen, io_error,
                   nops>>
    /\ ReadStep(read_buffer \o SubSeq(line, 1, n), read_len + n, used_bytes,
                fresh \o [i \in 1..n |-> TRUE], skipped)
    /\ awaiting' = (awaiting /\ rpd'.kind = "none")

\* A loop that takes a read of zero bytes for the end of the stream and fails.
ReadZero_eof ==
    /\ pc = "read"
    /\ n_read' = TRUE
    /\ last_read' = "zero"
    /\ read_deadline' = deadline
    /\ UNCHANGED <<transfer, deadline, n_deadline, codec>>
    /\ rpd' = Rpd("Io", <<>>, 0, 0, 0)
    /\ result' = operation_result(op, rpd')
    /\ pc' = "idle"
    /\ awaiting' = FALSE
    /\ UNCHANGED <<bus_vars, line, wire, op, n_discard, n_write, skipped, scen, io_error,
                   nops>>

\* serial_port.read returns Ok(0): the loop continues and polls again.
ReadZero ==
    /\ pc = "read"
    /\ n_read' = TRUE
    /\ last_read' = "zero"
    /\ read_deadline' = deadline
    /\ UNCHANGED <<transfer, deadline, n_deadline, codec>>
    /\ UNCHANGED <<read_cap, baud_rate, write_buffer, line, wire, op, n_discard, n_write, scen,
                   io_error, nops>>
    /\ ReadStep(read_buffer, read_len, used_bytes, fresh, skipped)
    /\ awaiting' = (awaiting /\ rpd'.kind = "none")

\* serial_port.read returns Err (the deadline passed): ReadError::Io.
ReadErr ==
    /\ pc = "read"
    /\ n_read' = TRUE
    /\ last_read' = "error"
    /\ read_deadline' = deadline
    /\ UNCHANGED <<transfer, deadline, n_deadline, codec>>
    /\ rpd' = Rpd("Io", <<>>, 0, 0, 0)
    /\ result' = operation_result(op, rpd')
    /\ pc' = "idle"
    /\ awaiting' = FALSE
    /\ io_error' = "read"
    /\ UNCHANGED <<bus_vars, line, wire, op, n_discard, n_write, skipped, scen, nops>>

\* A read_response that clears the read buffer as write_packet does: it
\* zeroes the cursors and discards the pending input before it reads.
CallReadResponse_reset ==
    /\ pc = "idle"
    /\ nops < MaxOps
    /\ nops > 0
    /\ nops' = nops + 1
    /\ op' = Op("read_response", 0, 0, 0, <<>>, <<>>)
    /\ n_discard' = 1
    /\ n_write' = 0
    /\ n_read' = FALSE
    /\ last_read' = "none"
    /\ io_error' = "none"
    /\ line' = <<>>
    /\ UNCHANGED <<read_cap, baud_rate, write_buffer, wire, scen>>
    /\ read_deadline' = NoDuration
    /\ codec' = codec
    /\ EnterReadResponse(op')
    /\ EnterRead(<<>>, 0, 0, <<>>, 0)
    /\ awaiting' = (awaiting /\ rpd'.kind = "none")

\* read_response called again without a write in between (crate-internal).
CallReadResponse ==
    /\ pc = "idle"
    /\ nops < MaxOps
    /\ nops > 0
    /\ nops' = nops + 1
    /\ op' = Op("read_response", 0, 0, 0, <<>>, <<>>)
    /\ n_discard' = 0
    /\ n_write' = 0
    /\ n_read' = FALSE
    /\ last_read' = "none"
    /\ io_error' = "none"
    /\ UNCHANGED <<read_cap, baud_rate, write_buffer, line, wire, scen>>
    /\ read_deadline' = NoDuration
    /\ codec' = codec
    /\ EnterReadResponse(op')
    /\ EnterRead(read_buffer, read_len, used_bytes, fresh, 0)
    /\ awaiting' = (awaiting /\ rpd'.kind = "none")

\* set_baud_rate: the port is set first; if that fails (ok = FALSE) the
\* function returns the error and the stored baud rate stays.
SetBaudRate(b, ok) ==
    /\ pc = "idle"
    /\ baud_rate' = IF ok THEN b ELSE baud_rate
    /\ UNCHANGED <<read_cap, read_buffer, read_len, used_bytes, write_buffer, fresh, line,
                   wire, pc, op, result, rpd, n_discard, n_write, n_read, last_read, skipped, scen,
                   awaiting, io_error, nops, time_vars, codec>>

Next ==
    \/ \E o \in WriteOps : Call(o)
    \/ DiscardOk
    \/ DiscardErr
    \/ \E sc \in Scenarios : WriteAllOk(sc)
    \/ WriteAllErr
    \/ \E n \in 1..read_cap : ReadData(n)
    \/ ReadZero
    \/ ReadErr
    \/ CallReadResponse
    \/ \E b \in BaudRates, ok \in BOOLEAN : SetBaudRate(b, ok)

Spec == Init /\ [][Next]_vars

\* The same program with a transport whose read fails once the deadline has
\* passed: as time advances between the calls of the polling loop, a read that
\* is being polled does not stay clear of the timeout error forever.
SpecLive == Init /\ [][Next]_vars /\ WF_vars(ReadErr)

\* ----------------------------------------------------- encode/decode loop-back
\* A second specification: make_packet encodes into a buffer, and the bytes it
\* produced are what the serial port delivers to read_packet_deadline on a read
\* buffer of the same capacity.
LoopCaps == {HEADER_SIZE + 4, BigCap}

\* Parameter bytes of length n: a ramp starting at first.
Ramp(n, first) == [i \in 1..n |-> (first + i - 1) % 256]

\* The arguments of the crate's own test of make_packet: motor 1, WriteStat,
\* the address 5 and 10.0_f32 as four little-endian bytes.
TestVector == <<5, 0, 0, 32, 65>>

LoopOps(cap) ==
    {Op("make_packet", i, InstWriteStat, 0, Ramp(n, first), <<>>) :
       i \in {1, 255}, n \in {0, 1, cap - 7, cap - 6, cap - 5}, first \in {0, 254}}
    \cup {Op("make_packet", 1, InstWriteStat, 0, TestVector, <<>>)}

InitRT ==
    /\ read_cap \in LoopCaps
    /\ read_buffer = <<>>
    /\ read_len = 0
    /\ used_bytes = 0
    /\ write_buffer = [i \in 1..read_cap |-> IF i <= 2 THEN HEADER_PREFIX[i] ELSE 0]
    /\ line = <<>>
    /\ wire = <<>>
    /\ pc = "idle"
    /\ op = NoOp
    /\ result = NoResult
    /\ rpd = NoRpd
    /\ n_discard = 0
    /\ n_write = 0
    /\ n_read = FALSE
    /\ last_read = "none"
    /\ fresh = <<>>
    /\ skipped = 0
    /\ scen = NoScenario
    /\ awaiting = FALSE
    /\ io_error = "none"
    /\ nops = 0
    /\ baud_rate = 1000000
    /\ transfer = NoTransfer
    /\ deadline = NoDuration
    /\ n_deadline = 0
    /\ read_deadline = NoDuration
    /\ codec = NoCodec

\* make_packet called on the write buffer with the caller's parameter bytes.
MakePacket(o) ==
    /\ pc = "idle"
    /\ nops = 0
    /\ nops' = 1
    /\ op' = o
    /\ \E mp \in {make_packet(write_buffer, o.id, o.inst, parameter_count(o), o)} :
         /\ write_buffer' = mp.buffer
         /\ wire' = Slice(mp.buffer, 0, mp.len)
         /\ result' = Res(mp.kind, None, None, <<>>, mp.required_size, mp.total_size)
         /\ pc' = IF mp.kind = "Ok" THEN "made" ELSE "idle"
    /\ UNCHANGED <<read_cap, baud_rate, read_buffer, read_len, used_bytes, fresh, line, rpd,
                   n_discard, n_write, n_read, last_read, skipped, scen, awaiting, io_error,
                   time_vars, codec>>

\* The encoded bytes are put on the line and read_packet_deadline is called.
ReadPacket ==
    /\ pc = "made"
    /\ line' = wire
    /\ UNCHANGED <<read_cap, baud_rate, write_buffer, wire, op, n_discard, n_write, n_read, last_read,
                   scen, io_error, nops, time_vars, codec>>
    /\ EnterRead(read_buffer, read_len, used_bytes, fresh, 0)
    /\ awaiting' = (awaiting /\ rpd'.kind = "none")

NextRT ==
    \/ \E o \in LoopOps(read_cap) : MakePacket(o)
    \/ ReadPacket
    \/ \E n \in 1..read_cap : ReadData(n)
    \/ ReadZero
    \/ ReadErr

SpecRT == InitRT /\ [][NextRT]_vars

\* ------------------------------------------------------------ transfer time
\* A third specification: message_transfer_time applied to a message size and
\* the baud rate of the bus.
MessageSizes ==
    {0, 1, 4, 5, 6, 8, 10, 128, 255, 256, 960, 65535, 200000000, 214748364}

TimeBauds == {0, 1, 3, 7, 9600, 57600, 115200, 1000000, 8000000, 2000000001}

InitTime ==
    /\ read_cap = ReadCap
    /\ read_buffer = <<>>
    /\ read_len = 0
    /\ used_bytes = 0
    /\ write_buffer = [i \in 1..WriteCap |-> IF i <= 2 THEN HEADER_PREFIX[i] ELSE 0]
    /\ line = <<>>
    /\ wire = <<>>
    /\ pc = "idle"
    /\ op = NoOp
    /\ result = NoResult
    /\ rpd = NoRpd
    /\ n_discard = 0
    /\ n_write = 0
    /\ n_read = FALSE
    /\ last_read = "none"
    /\ fresh = <<>>
    /\ skipped = 0
    /\ scen = NoScenario
    /\ awaiting = FALSE
    /\ io_error = "none"
    /\ nops = 0
    /\ baud_rate \in TimeBauds
    /\ transfer = NoTransfer
    /\ deadline = NoDuration
    /\ n_deadline = 0
    /\ read_deadline = NoDuration
    /\ codec = NoCodec

\* message_transfer_time(message_size, self.baud_rate) is called.
MessageTransferTime(message_size) ==
    /\ pc = "idle"
    /\ nops = 0
    /\ nops' = 1
    /\ \E t \in {message_transfer_time(message_size, baud_rate)} :
         /\ transfer' = Transfer(message_size, baud_rate, t)
         /\ pc' = IF t = NoDuration THEN "panicked" ELSE "idle"
    /\ UNCHANGED <<bus_vars, line, wire, op, result, rpd, n_discard, n_write, n_read, last_read,
                   skipped, scen, awaiting, io_error, deadline, n_deadline,
                   read_deadline, codec>>

NextTime == \E message_size \in MessageSizes : MessageTransferTime(message_size)

SpecTime == InitTime /\ [][NextTime]_vars

\* ------------------------------------------------------------ register codec
\* A fourth specification: the encode and decode functions of a register,
\* applied to 32-bit patterns and to slices of 0..6 bytes.
\* 0, 1, 0x01020304, 5.0_f32, -5.0_f32, f32::MAX, f32::MIN, u32::MAX,
\* 0x7FFFFFFF and 0x80000001.
RegisterValues ==
    {0, 1, 16909060, 1084227584, -1063256064, 2139095039, -8388609, -1, 2147483647,
     -2147483647}

CodecSlices == {Ramp(n, first) : n \in 0..6, first \in {0, 170}}

\* R::decode(&R::encode_bytes(value))
RoundTrip(value) ==
    /\ pc = "idle"
    /\ nops = 0
    /\ nops' = 1
    /\ \E d \in {decode(encode_bytes(value))} :
         codec' = Codec("round_trip", value, <<>>, d.ok, encode_bytes(value), d.value,
                        d.actual, d.expected)
    /\ UNCHANGED <<bus_vars, line, wire, pc, op, result, rpd, n_discard, n_write, n_read, last_read,
                   skipped, scen, awaiting, io_error, time_vars>>

\* R::decode(buffer)
Decode(buffer) ==
    /\ pc = "idle"
    /\ nops = 0
    /\ nops' = 1
    /\ \E d \in {decode(buffer)} :
         codec' = Codec("decode", 0, buffer, d.ok, buffer, d.value, d.actual, d.expected)
    /\ UNCHANGED <<bus_vars, line, wire, pc, op, result, rpd, n_discard, n_write, n_read, last_read,
                   skipped, scen, awaiting, io_error, time_vars>>

\* R::encode(value, buffer)
Encode(value, buffer) ==
    /\ pc = "idle"
    /\ nops = 0
    /\ nops' = 1
    /\ \E e \in {encode(value, buffer)} :
         codec' = Codec("encode", value, buffer, e.ok, e.buffer, 0, e.required_size,
                        e.total_size)
    /\ UNCHANGED <<bus_vars, line, wire, pc, op, result, rpd, n_discard, n_write, n_read, last_read,
                   skipped, scen, awaiting, io_error, time_vars>>

NextCodec ==
    \/ \E value \in RegisterValues : RoundTrip(value)
    \/ \E buffer \in CodecSlices : Decode(buffer)
    \/ \E value \in RegisterValues, buffer \in CodecSlices : Encode(value, buffer)

SpecCodec == Init /\ [][NextCodec]_vars

\* ================================================================== claims
\* C1: encode/decode round trip.  For every motor id, instruction byte and
\* parameter sequence of length 0..capacity-6, for every capacity, the bytes
\* make_packet produced, fed to read_packet_deadline on a read buffer of the same
\* capacity, come back as a packet with the same motor id, the length byte
\* params.len() + 2, the same instruction byte and parameters, followed by the
\* checksum of bytes [2..last_param].
C1_RoundTrip ==
    (op.kind = "make_packet" /\ pc = "idle" /\ rpd.kind \notin {"none", "Io"}) =>
        /\ rpd.kind = "Packet"
        /\ rpd.view = <<255, 255, op.id, Len(op.data) + 2, op.inst>> \o op.data
        /\ At(read_buffer, rpd.message_len - 1)
             = calculate_checksum(<<op.id, Len(op.data) + 2, op.inst>> \o op.data)

\* A ping or read has come back from read_packet_deadline (not by a transport
\* error) in an exchange where the device sent garbage, then a well-formed packet.
C2_Returned ==
    /\ reads_response(op)
    /\ scen.wf
    /\ rpd.kind \notin {"none", "Io"}

\* The garbage g, followed by the first header byte of the packet, holds no
\* 0xFF byte that is immediately followed by another 0xFF byte.
C2_NoPrefixIn(g) ==
    \A i \in 1..Len(g) : g[i] = 255 => (i < Len(g) /\ g[i + 1] # 255)

\* C2 as stated: for every sequence of N garbage bytes (any byte values)
\* delivered immediately before a well-formed packet, the receive path discards
\* exactly those N bytes and returns the packet unchanged.
C2_AnyGarbageSkipped ==
    C2_Returned =>
        /\ skipped = Len(scen.g)
        /\ rpd.kind = "Packet"
        /\ Slice(read_buffer, 0, rpd.message_len) = scen.p
        /\ rpd.view = Slice(scen.p, 0, Len(scen.p) - 1)

\* C2 amended: for every sequence of N garbage bytes in which no 0xFF byte is
\* immediately followed by another 0xFF byte (the first header byte of the
\* packet counting as the follower of the last garbage byte), the receive path
\* discards exactly those N bytes, the packet then sits unchanged at the start
\* of the read buffer, and the returned view is the packet up to, not
\* including, its verified checksum byte.
C2_GarbageSkipped ==
    (C2_Returned /\ C2_NoPrefixIn(scen.g)) =>
        /\ skipped = Len(scen.g)
        /\ rpd.kind = "Packet"
        /\ Slice(read_buffer, 0, rpd.message_len) = scen.p
        /\ rpd.view = Slice(scen.p, 0, Len(scen.p) - 1)

\* C2 witness: three garbage bytes, one of them 0xFF, were skipped and the
\* packet behind them was returned.
C2_Witness ==
    /\ C2_Returned
    /\ scen.g = <<7, 255, 0>>
    /\ skipped = 3
    /\ rpd.kind = "Packet"
    /\ rpd.view = Slice(scen.p, 0, Len(scen.p) - 1)

\* C3: cursor invariant.  In every state reachable by any sequence of Bus
\* operations and any transport behaviour that returns at most the offered
\* slice length, used_bytes <= read_len <= read buffer capacity.
C3_CursorInvariant ==
    /\ 0 <= used_bytes
    /\ used_bytes <= read_len
    /\ read_len <= read_cap
    /\ Len(read_buffer) = read_len

\* C3 witness: after a packet was returned with a second one queued behind
\* it, a read_response without a write in between has compacted the first
\* away and returned the second from the buffer, with no transport read.
C3_Witness ==
    /\ op.kind = "read_response"
    /\ rpd.kind = "Packet"
    /\ ~n_read
    /\ used_bytes = rpd.message_len
    /\ read_len = used_bytes
    /\ 0 < used_bytes

\* C4 as stated: every public operation, for every byte stream the transport
\* may deliver, ends by returning a success value or an explicit error value;
\* it never panics.
C4_NoAbort ==
    /\ pc # "panicked"
    /\ result.kind # "Panic"

\* C5: pre-write reset ordering.  Whenever write_all is called, read_len and
\* used_bytes are 0 and discard_input_buffer has been called exactly once in
\* this operation, after the reset; write_all is called at most once, and never
\* without the reset and the discard before it.
C5_ResetBeforeWrite ==
    [][/\ (n_write' > n_write =>
             /\ pc = "write_all"
             /\ read_len = 0
             /\ used_bytes = 0
             /\ n_discard = 1
             /\ n_write = 0)
       /\ (n_discard' > n_discard =>
             /\ pc = "discard"
             /\ read_len = 0
             /\ used_bytes = 0
             /\ n_discard = 0
             /\ n_write = 0)]_vars

\* C5 witness: the second operation of a run has called write_all, after its
\* one discard, and the line carries nothing but the reply to it.
C5_Witness ==
    /\ nops = 2
    /\ op.kind = "save_config"
    /\ n_write = 1
    /\ n_discard = 1
    /\ scen.p # <<>>
    /\ line = Stream(scen)

\* C6: no stale correlation.  Every byte of a packet returned by a ping or a
\* read was delivered by a transport read issued after that operation's own
\* write_all; no byte buffered during an earlier exchange is part of it.
C6_NoStaleCorrelation ==
    (reads_response(op) /\ rpd.kind = "Packet") =>
        /\ n_write = 1
        /\ n_read
        /\ \A i \in 1..rpd.message_len : fresh[i]

\* C6 witness: the second operation of a run is a ping or a read and has
\* returned a packet.
C6_Witness ==
    /\ nops = 2
    /\ reads_response(op)
    /\ rpd.kind = "Packet"
    /\ result.kind = "Ok"

\* The message at the front of what the device sent in this exchange: its
\* declared size, and whether a ping or a read has buffered all of it and
\* has returned from read_packet_deadline.
C7_MessageLen == HEADER_SIZE + Stream(scen)[PACKET_LEN + 1]

C7_FrontMessageBuffered ==
    /\ reads_response(op)
    /\ Len(Stream(scen)) >= HEADER_SIZE
    /\ StartsWith(Stream(scen), HEADER_PREFIX)
    /\ C7_MessageLen <= Len(Stream(scen))
    /\ C7_MessageLen <= read_cap
    /\ Len(line) <= Len(Stream(scen)) - C7_MessageLen
    /\ rpd.kind # "none"

\* C7 as stated: when a complete message (4 + length byte bytes) is buffered
\* and its trailing byte differs from calculate_checksum over bytes
\* [2..last_param], read_response fails with InvalidChecksum carrying the
\* received and the computed byte, exactly that message's bytes are discarded,
\* the bytes received after it remain buffered in order, and nothing is re-sent.
C7_InvalidChecksumHandled ==
    (/\ C7_FrontMessageBuffered
     /\ Stream(scen)[C7_MessageLen]
          # calculate_checksum(Slice(Stream(scen), 2, C7_MessageLen - 1))) =>
        /\ rpd.kind = "InvalidChecksum"
        /\ rpd.v1 = Stream(scen)[C7_MessageLen]
        /\ rpd.v2 = calculate_checksum(Slice(Stream(scen), 2, C7_MessageLen - 1))
        /\ read_buffer \o line = Slice(Stream(scen), C7_MessageLen, Len(Stream(scen)))
        /\ used_bytes = 0
        /\ n_write = 1

\* C8 as stated: for every received header whose declared size 4 + length byte
\* exceeds the read buffer capacity, read_response fails with a
\* buffer-too-small error reporting required_size = 4 + length byte and
\* total_size = capacity; no packet is returned and nothing is stored beyond
\* the buffer.
C8_UndersizedReceiveBuffer ==
    (/\ reads_response(op)
     /\ Len(Stream(scen)) >= HEADER_SIZE
     /\ StartsWith(Stream(scen), HEADER_PREFIX)
     /\ C7_MessageLen > read_cap
     /\ Len(line) <= Len(Stream(scen)) - HEADER_SIZE
     /\ rpd.kind # "none") =>
        /\ rpd.kind = "BufferFull"
        /\ rpd.v1 = C7_MessageLen
        /\ rpd.v2 = read_cap
        /\ Len(read_buffer) <= read_cap

\* C9 as stated: for every operation that reads a response, a structurally
\* valid, correctly checksummed response whose motor ID byte differs from the
\* ID the request was addressed to makes the operation fail with
\* InvalidPacketId {actual = received ID, expected = requested ID}; it is never
\* returned as success.
C9_PacketIdChecked ==
    (/\ reads_response(op)
     /\ rpd.kind = "Packet"
     /\ Len(rpd.view) >= 5
     /\ At(rpd.view, PACKET_ID) # op.id) =>
        /\ result.kind = "InvalidPacketId"
        /\ result.v1 = At(rpd.view, PACKET_ID)
        /\ result.v2 = op.id

\* C10 as stated: for every flag byte value 0..255 carried by an otherwise
\* valid response to a register read, if the byte has at least one ERROR_FLAGS
\* bit set the operation fails with MotorError and no Response is returned.
C10_DeviceFault ==
    (/\ op.kind = "read"
     /\ rpd.kind = "Packet"
     /\ Len(rpd.view) = 9
     /\ At(rpd.view, PACKET_ID) = op.id
     /\ intersects(At(rpd.view, PACKET_ERROR), ERROR_FLAGS)) =>
        result.kind = "MotorError"

\* C11 as stated: for every flag byte value 0..255, a successfully returned
\* Response has warning = Some(_) only if the flag byte intersects
\* WARNING_FLAGS; a response whose flag byte has no warning bit set has
\* warning = None.
C11_WarningField ==
    (/\ reads_response(op)
     /\ rpd.kind = "Packet"
     /\ result.kind = "Ok") =>
        /\ (result.warning # None =>
              intersects(At(rpd.view, PACKET_ERROR), WARNING_FLAGS))
        /\ (~intersects(At(rpd.view, PACKET_ERROR), WARNING_FLAGS) =>
              result.warning = None)

\* C12 as stated: ping(motor_id) sends a zero-parameter Ping packet and
\* succeeds only if the response's motor ID equals motor_id and its flag byte
\* has no ERROR_FLAGS bit; a response from a different ID yields an
\* invalid-packet-id failure and a response with an ERROR_FLAGS bit yields a
\* motor-error failure.
C12_PingValidation ==
    (/\ op.kind = "ping"
     /\ rpd.kind = "Packet"
     /\ Len(rpd.view) >= 5) =>
        /\ wire = <<255, 255, op.id, 2, InstPing,
                    calculate_checksum(<<op.id, 2, InstPing>>)>>
        /\ (result.kind = "Ok" =>
              /\ At(rpd.view, PACKET_ID) = op.id
              /\ ~intersects(At(rpd.view, PACKET_ERROR), ERROR_FLAGS))
        /\ (At(rpd.view, PACKET_ID) # op.id => result.kind = "InvalidPacketId")
        /\ ((/\ At(rpd.view, PACKET_ID) = op.id
             /\ intersects(At(rpd.view, PACKET_ERROR), ERROR_FLAGS)) =>
              result.kind = "MotorError")

\* C13 as stated: in every sequence of public Bus operations a request is
\* never written to the transport while the previous request's response is
\* still unread: between any two consecutive write_all calls there is a
\* response read that ran to completion (packet or error).
C13_StrictHalfDuplex ==
    [][n_write' > n_write => ~awaiting]_vars

\* C14 as stated: with a transport whose read returns a timeout error once the
\* deadline has passed, every call to read_response eventually returns, with a
\* packet or with an error; the polling loop cannot run forever, and the
\* timeout reaches the caller as the transport's I/O error (ReadError::Io).
C14_ReadReturns ==
    /\ (pc = "read") ~> (pc = "idle" /\ result.kind # "none")
    /\ [](rpd.kind = "Io" => result.kind = "Io")

\* C15: encode failure precedes all I/O.  When the request does not fit the
\* write buffer the operation returns WriteError::BufferTooSmall, with the
\* required and the actual size, and neither discard_input_buffer nor
\* write_all nor any read is called; read_len, used_bytes and the read buffer
\* are left unchanged.
C15_EncodeFailureBeforeIo ==
    /\ [][(/\ nops' > nops
           /\ op'.kind # "read_response"
           /\ HEADER_SIZE + parameter_count(op') + 2 > Len(write_buffer)) =>
              /\ result'.kind = "WriteBufferTooSmall"
              /\ result'.v1 = parameter_count(op') + 6
              /\ result'.v2 = Len(write_buffer)
              /\ pc' = "idle"
              /\ UNCHANGED <<read_buffer, read_len, used_bytes, line>>]_vars
    /\ [](result.kind = "WriteBufferTooSmall" =>
            /\ pc = "idle"
            /\ n_discard = 0
            /\ n_write = 0
            /\ ~n_read)

\* C15 witness: an operation that follows a ping has failed with
\* WriteError::BufferTooSmall, and the reply to the ping is still in the read
\* buffer, marked used.
C15_Witness ==
    /\ result.kind = "WriteBufferTooSmall"
    /\ nops = 2
    /\ used_bytes > 0
    /\ read_len >= used_bytes
    /\ n_discard = 0
    /\ n_write = 0

\* C16: discard vs. write failure.  If discard_input_buffer fails the
\* operation returns WriteError::DiscardBuffer and write_all is never called;
\* if the discard succeeds and write_all fails the operation returns
\* WriteError::Write; the two outcomes are never confused and no response read
\* is attempted in either case.
C16_DiscardVsWriteFailure ==
    /\ (io_error = "discard") =
           (result.kind = "DiscardBuffer")
    /\ (io_error = "write") =
           (result.kind = "Write")
    /\ io_error = "discard" =>
           /\ pc = "idle"
           /\ n_discard = 1
           /\ n_write = 0
           /\ ~n_read
           /\ rpd.kind = "none"
    /\ io_error = "write" =>
           /\ pc = "idle"
           /\ n_discard = 1
           /\ n_write = 1
           /\ ~n_read
           /\ rpd.kind = "none"

\* C16 witness: the discard of a ping succeeded and its write_all failed; the
\* ping has returned WriteError::Write without reading.
C16_Witness ==
    /\ op.kind = "ping"
    /\ io_error = "write"
    /\ result.kind = "Write"
    /\ n_discard = 1
    /\ ~n_read

\* C16 witness of the other failure: the discard of a read failed and the read
\* has returned WriteError::DiscardBuffer with nothing written.
C16_WitnessDiscard ==
    /\ op.kind = "read"
    /\ io_error = "discard"
    /\ result.kind = "DiscardBuffer"
    /\ n_write = 0

\* C17 as stated: for every motor_id, instruction and parameter_count with
\* 4 + parameter_count + 2 <= buffer length, make_packet writes 0xFF 0xFF at
\* [0..2], motor_id at [2], the length byte parameter_count + 2 at [3], the
\* instruction at [4], the callback's parameters at [5..5+parameter_count],
\* the checksum of bytes [2..5+parameter_count] right after them, and returns
\* parameter_count + 6; bytes past the returned length are untouched (id 1,
\* WriteStat, params 05 00 00 20 41 gives FF FF 01 07 03 05 00 00 20 41 8E).
C17_PacketLayout ==
    (/\ op.kind = "make_packet"
     /\ HEADER_SIZE + Len(op.data) + 2 <= Len(write_buffer)) =>
        /\ Len(wire) = Len(op.data) + 6
        /\ wire = Slice(write_buffer, 0, Len(wire))
        /\ Slice(wire, 0, 2) = <<255, 255>>
        /\ At(wire, PACKET_ID) = op.id
        /\ At(wire, PACKET_LEN) = Len(op.data) + 2
        /\ At(wire, 4) = op.inst
        /\ Slice(wire, 5, 5 + Len(op.data)) = op.data
        /\ At(wire, 5 + Len(op.data))
             = calculate_checksum(Slice(wire, 2, 5 + Len(op.data)))
        /\ \A i \in (Len(wire) + 1)..Len(write_buffer) : write_buffer[i] = 0
        /\ (op.data = TestVector /\ op.id = 1) =>
             wire = <<255, 255, 1, 7, 3, 5, 0, 0, 32, 65, 142>>

\* C18: encode capacity check.  make_packet called with a buffer shorter than
\* 4 + parameter_count + 2 fails with BufferTooSmallError {required_size =
\* parameter_count + 6, total_size = buffer length}, without invoking the
\* parameter callback and without modifying any byte of the buffer.
C18_EncodeCapacityCheck ==
    (/\ op.kind = "make_packet"
     /\ Len(write_buffer) < HEADER_SIZE + Len(op.data) + 2) =>
        /\ result.kind = "BufferTooSmall"
        /\ result.v1 = Len(op.data) + 6
        /\ result.v2 = Len(write_buffer)
        /\ write_buffer = [i \in 1..read_cap |-> IF i <= 2 THEN 255 ELSE 0]
        /\ wire = <<>>
        /\ pc = "idle"

\* C18 witness: make_packet has refused 255 parameter bytes for a buffer of
\* 260 bytes, one byte short.
C18_Witness ==
    /\ op.kind = "make_packet"
    /\ Len(op.data) = Len(write_buffer) - 5
    /\ Len(write_buffer) = BigCap
    /\ result.kind = "BufferTooSmall"
    /\ result.v1 = BigCap + 1
    /\ result.v2 = BigCap

\* C19: register read.  read<R>(motor_id) transmits exactly one packet with
\* R's read opcode and a single parameter byte equal to R's address; a valid
\* response with matching ID and no error flag whose data has exactly 4 bytes
\* yields Response.data = the little-endian decoding of those bytes, and one
\* whose data length is not 4 fails with InvalidParameterCount {actual,
\* expected Exact(4)}.
C19_RegisterRead ==
    (/\ op.kind = "read"
     /\ rpd.kind = "Packet"
     /\ Len(rpd.view) >= 5
     /\ At(rpd.view, PACKET_ID) = op.id
     /\ ~intersects(At(rpd.view, PACKET_ERROR), ERROR_FLAGS)) =>
        /\ n_write = 1
        /\ \E r \in Registers :
             /\ op.inst = r.read_inst
             /\ op.addr = r.address
             /\ wire = <<255, 255, op.id, 3, r.read_inst, r.address,
                         calculate_checksum(<<op.id, 3, r.read_inst, r.address>>)>>
        /\ IF Len(rpd.view) - 5 = 4
           THEN /\ result.kind = "Ok"
                /\ result.motor_id = op.id
                /\ result.v1 = At(rpd.view, 5) + 256 * At(rpd.view, 6)
                                 + 65536 * At(rpd.view, 7) + 16777216 * At(rpd.view, 8)
           ELSE /\ result.kind = "InvalidParameterCount"
                /\ result.v1 = Len(rpd.view) - 5
                /\ result.v2 = 4

\* C19 witness: a read of PGainPos from motor 1 was answered with the data
\* bytes 00 00 A0 40 and a warning flag, and has returned 0x40A00000 (5.0_f32).
C19_Witness ==
    /\ op.kind = "read"
    /\ op.addr = 13
    /\ rpd.kind = "Packet"
    /\ rpd.view = <<255, 255, 1, 6, 1, 0, 0, 160, 64>>
    /\ result.kind = "Ok"
    /\ result.v1 = 1084227584

\* C19 witness of the failure: a read was answered by a status packet without
\* data and has failed with InvalidParameterCount {actual: 0, expected: 4}.
C19_WitnessCount ==
    /\ op.kind = "read"
    /\ rpd.kind = "Packet"
    /\ Len(rpd.view) = 5
    /\ result.kind = "InvalidParameterCount"
    /\ result.v1 = 0
    /\ result.v2 = 4

\* C20: register write wire bytes.  write<R>(motor_id, value) hands write_all
\* exactly the 11 bytes FF FF motor_id 07 <R's write opcode> <R's address>
\* <value as 4 little-endian bytes> <checksum>; for motor 1, config address
\* 0x0D and value bytes 00 00 A0 40 the bytes are FF FF 01 07 05 0D 00 00 A0 40
\* followed by the checksum of bytes [2..10].
C20_RegisterWriteBytes ==
    (op.kind = "write" /\ n_write = 1) =>
        /\ Len(wire) = 11
        /\ \E r \in Registers :
             /\ op.inst = r.write_inst
             /\ op.addr = r.address
             /\ Slice(wire, 0, 6) = <<255, 255, op.id, 7, r.write_inst, r.address>>
        /\ \E v \in Values :
             Slice(wire, 6, 10) = <<v % 256, (v \div 256) % 256,
                                    (v \div 65536) % 256, (v \div 16777216) % 256>>
        /\ At(wire, 10) = calculate_checksum(Slice(wire, 2, 10))
        /\ (op.id = 1 /\ op.addr = 13) =>
             wire = <<255, 255, 1, 7, InstWriteCfg, 13, 0, 0, 160, 64, 5>>

\* C20 witness: write_all was called for a write of 5.0_f32 to PGainPos of
\* motor 1 and got the eleven bytes of the example.
C20_Witness ==
    /\ op.kind = "write"
    /\ op.addr = 13
    /\ n_write = 1
    /\ io_error = "none"
    /\ wire = <<255, 255, 1, 7, 5, 13, 0, 0, 160, 64, 5>>

\* C21 (multi-write batching).  The parameter region the claim describes:
\* entry i at bytes [5i..5i+5), its address byte followed by its 4 value
\* bytes.
RECURSIVE C21_Region(_)
C21_Region(entries) ==
    IF entries = <<>> THEN <<>>
    ELSE <<Head(entries).address>> \o Head(entries).data \o C21_Region(Tail(entries))

\* C21: a multi_write with N >= 1 entries that fit the write buffer, once it
\* is past its transport calls without an I/O failure, has made exactly one
\* write_all call with one packet: header, id, length byte N*5 + 2,
\* instruction, the N*5 parameter bytes entry by entry, and a valid checksum.
C21_MultiWriteBatching ==
    (/\ op.kind = "multi_write"
     /\ Len(op.entries) >= 1
     /\ HEADER_SIZE + Len(op.entries) * 5 + 2 <= Len(write_buffer)
     /\ pc \notin {"discard", "write_all"}
     /\ io_error = "none")
    => /\ n_write = 1
       /\ result.kind = "Ok"
       /\ Len(wire) = HEADER_SIZE + Len(op.entries) * 5 + 2
       /\ Slice(wire, 0, 5) = <<255, 255, op.id, Len(op.entries) * 5 + 2, op.inst>>
       /\ Slice(wire, 5, Len(wire) - 1) = C21_Region(op.entries)
       /\ (WrappingFold(wire, 3, Len(wire)) = 255)

\* C22 (transfer-time formula).  Natural numbers beyond 31 bits, as base-10000
\* digits, least significant first, without leading zeros.
RECURSIVE C22_Big(_)
C22_Big(x) == IF x = 0 THEN <<>> ELSE <<x % 10000>> \o C22_Big(x \div 10000)

\* x + y + c
RECURSIVE C22_BigAdd(_, _, _)
C22_BigAdd(x, y, c) ==
    IF x = <<>> /\ y = <<>> THEN (IF c = 0 THEN <<>> ELSE <<c>>)
    ELSE LET s == (IF x = <<>> THEN 0 ELSE Head(x)) + (IF y = <<>> THEN 0 ELSE Head(y)) + c
         IN <<s % 10000>> \o C22_BigAdd(IF x = <<>> THEN <<>> ELSE Tail(x),
                                        IF y = <<>> THEN <<>> ELSE Tail(y), s \div 10000)

\* x * d + c for one digit d > 0
RECURSIVE C22_BigScale(_, _, _)
C22_BigScale(x, d, c) ==
    IF x = <<>> THEN (IF c = 0 THEN <<>> ELSE <<c>>)
    ELSE <<(Head(x) * d + c) % 10000>>
         \o C22_BigScale(Tail(x), d, (Head(x) * d + c) \div 10000)

\* x * y
RECURSIVE C22_BigMul(_, _)
C22_BigMul(x, y) ==
    IF x = <<>> \/ y = <<>> THEN <<>>
    ELSE LET rest == C22_BigMul(x, Tail(y))
         IN C22_BigAdd(IF Head(y) = 0 THEN <<>> ELSE C22_BigScale(x, Head(y), 0),
                       IF rest = <<>> THEN <<>> ELSE <<0>> \o rest, 0)

\* x < y
C22_BigLess(x, y) ==
    \/ Len(x) < Len(y)
    \/ /\ Len(x) = Len(y)
       /\ \E i \in 1..Len(x) :
            /\ x[i] < y[i]
            /\ \A j \in (i + 1)..Len(x) : x[j] = y[j]

\* 2^64 and u32::MAX in that notation.
C22_TwoTo64 == <<1616, 955, 7370, 4407, 1844>>

C22_U32Max == <<7295, 9496, 42>>

\* C22: for every message size and every baud rate > 0, the Duration that
\* message_transfer_time returns is ceil(message_size * 10 * 10^9 / baud_rate)
\* nanoseconds: it is a well-formed Duration of T nanoseconds with
\* message_size * 10^10 <= T * baud_rate < message_size * 10^10 + baud_rate.
\* The 64-bit intermediate values do not overflow (neither for these arguments
\* nor for the largest 32-bit ones), 8 bytes at 1,000,000 baud take 80
\* microseconds and 10 bytes at 9600 baud take 10,416,667 ns.
C22_TransferTime ==
    transfer.baud_rate > 0 =>
      LET t == transfer.time
          size == C22_Big(transfer.message_size)
          baud == C22_Big(transfer.baud_rate)
          nanos == C22_BigAdd(C22_BigMul(C22_Big(t.secs), C22_Big(NANOS_PER_SEC)),
                              C22_Big(t.nanos), 0)
          exact == C22_BigMul(C22_BigMul(size, C22_Big(10)), C22_Big(NANOS_PER_SEC))
          scaled == C22_BigMul(nanos, baud)
      IN /\ t.secs >= 0
         /\ t.nanos \in 0..(NANOS_PER_SEC - 1)
         /\ ~C22_BigLess(scaled, exact)
         /\ C22_BigLess(scaled, C22_BigAdd(exact, baud, 0))
         /\ C22_BigLess(C22_BigMul(size, C22_Big(10)), C22_TwoTo64)
         /\ C22_BigLess(C22_BigMul(C22_Big((transfer.message_size * 10) % transfer.baud_rate),
                                   C22_Big(NANOS_PER_SEC)), C22_TwoTo64)
         /\ C22_BigLess(C22_BigMul(C22_U32Max, C22_Big(10)), C22_TwoTo64)
         /\ C22_BigLess(C22_BigMul(C22_U32Max, C22_Big(NANOS_PER_SEC)), C22_TwoTo64)
         /\ (transfer.message_size = 8 /\ transfer.baud_rate = 1000000
               => t = Duration(0, 80000))
         /\ (transfer.message_size = 10 /\ transfer.baud_rate = 9600
               => t = Duration(0, 10416667))

\* C22 witness: 10 bytes at 9600 baud, where the sub-second part is rounded up.
C22_Witness ==
    /\ transfer.message_size = 10
    /\ transfer.baud_rate = 9600
    /\ transfer.time = Duration(0, 10416667)

\* C22 witness: the rounded-up sub-second part is a full second and is carried
\* into the seconds.
C22_WitnessCarry ==
    /\ transfer.message_size = 200000000
    /\ transfer.baud_rate = 2000000001
    /\ transfer.time = Duration(1, 0)

\* C23 (read deadline).  The size of the status packet an operation expects:
\* header prefix, ID, length, flag byte, parameters, checksum.
C23_ExpectedResponseSize(o) == HEADER_SIZE + 2 + (IF o.kind = "read" THEN 4 ELSE 0)

\* C23: once a ping or a read has called read_response, exactly one deadline
\* was made for it, from message_transfer_time(S, baud rate at the call) + 1 ms
\* with S the size of the whole expected response; while the call is reading,
\* that baud rate is the current one, and every transport read was handed that
\* deadline.
C23_ReadDeadline ==
    (op.kind \in {"ping", "read"} /\ n_write = 1 /\ io_error # "write")
    => /\ n_deadline = 1
       /\ transfer.message_size = C23_ExpectedResponseSize(op)
       /\ deadline = DurationAdd(message_transfer_time(C23_ExpectedResponseSize(op),
                                                        transfer.baud_rate),
                                 from_millis(1))
       /\ (pc = "read" => transfer.baud_rate = baud_rate)
       /\ (n_read => read_deadline = deadline)

\* C23, the part that holds: one deadline per read_response call, made from
\* message_transfer_time(expected_parameters, current baud rate) + 1 ms, and
\* handed to every transport read of the call.
C23_OneDeadlinePerCall ==
    (op.kind \in {"ping", "read", "read_response"}
     /\ (op.kind = "read_response" \/ (n_write = 1 /\ io_error # "write")))
    => /\ n_deadline = 1
       /\ transfer.message_size = expected_parameters(op)
       /\ deadline = DurationAdd(transfer.time, from_millis(1))
       /\ (pc = "read" => transfer.baud_rate = baud_rate)
       /\ (n_read => read_deadline = deadline)

\* C24 (checksum).  The sum of data[lo..hi] (one-based, inclusive) as a plain
\* natural number.
RECURSIVE C24_Sum(_, _, _)
C24_Sum(data, lo, hi) ==
    IF lo > hi THEN 0
    ELSE IF lo = hi THEN data[lo]
    ELSE C24_Sum(data, lo, (lo + hi) \div 2) + C24_Sum(data, (lo + hi) \div 2 + 1, hi)

\* Byte sequences of length 0..3 over the bytes 0, 1, 128 and 255.
C24_Data ==
    UNION {[1..n -> {0, 1, 128, 255}] : n \in 0..3}

\* What the claim says of one byte sequence and its checksum byte.
C24_IsChecksum(data, c) ==
    /\ c \in 0..255
    /\ c = 255 - (C24_Sum(data, 1, Len(data)) % 256)
    /\ (C24_Sum(data, 1, Len(data)) + c) % 256 = 255

\* C24: calculate_checksum(data) = 255 - (sum of data mod 256), so sum plus
\* checksum is 255 mod 256, for every short byte sequence (the empty one gives
\* 255); the last byte of every packet make_packet produced is that value for
\* the bytes from the ID to the last parameter, a message is accepted by
\* read_packet_deadline exactly with that value as its last byte, and a
\* rejected one is reported with that value as the computed checksum.
C24_Checksum ==
    /\ \A data \in C24_Data : C24_IsChecksum(data, calculate_checksum(data))
    /\ calculate_checksum(<<>>) = 255
    /\ (wire # <<>> => C24_IsChecksum(Slice(wire, 2, Len(wire) - 1), wire[Len(wire)]))
    /\ (rpd.kind = "Packet"
          => C24_IsChecksum(Slice(read_buffer, 2, rpd.message_len - 1),
                            At(read_buffer, rpd.message_len - 1)))
    /\ (rpd.kind = "InvalidChecksum"
          => /\ rpd.v1 # rpd.v2
             /\ rpd.v2 \in 0..255
             /\ (op.kind \in {"ping", "read"} /\ scen.g = <<>>
                 /\ rpd.message_len = Len(scen.p)
                   => /\ rpd.v1 = scen.p[Len(scen.p)]
                      /\ C24_IsChecksum(Slice(scen.p, 2, Len(scen.p) - 1), rpd.v2)))

\* C24 witness: a packet went out with its checksum, and a reply whose
\* parameter bytes sum up beyond 255 was accepted.
C24_Witness ==
    /\ wire # <<>>
    /\ rpd.kind = "Packet"
    /\ C24_Sum(read_buffer, 3, rpd.message_len - 1) > 255

\* C24 witness: a message with another last byte was rejected.
C24_WitnessRejected ==
    /\ rpd.kind = "InvalidChecksum"
    /\ op.kind \in {"ping", "read"}
    /\ scen.g = <<>>
    /\ rpd.message_len = Len(scen.p)

C26_LittleEndian(bytes, v) ==
    /\ Len(bytes) >= 4
    /\ bytes[1] = v % 256
    /\ bytes[2] = (v \div 256) % 256
    /\ bytes[3] = (v \div 65536) % 256
    /\ bytes[4] = (v \div 16777216) % 256

\* C26: decode(encode_bytes(v)) = v for every 32-bit pattern v, with the four
\* bytes in little-endian order (0x01020304 gives 04 03 02 01, 5.0 gives
\* 00 00 A0 40, u32::MAX gives four FF); decode succeeds exactly on slices of
\* length 4 and otherwise fails with InvalidParameterCount {actual, 4}; encode
\* succeeds exactly on destinations of at least 4 bytes, writing the four
\* bytes at the front and nothing else, and otherwise fails with
\* BufferTooSmall {4, length} and leaves the destination as it was.
C26_CodecRoundTrip ==
    /\ codec.kind = "round_trip"
         => /\ codec.ok
            /\ codec.decoded = codec.value
            /\ Len(codec.out) = 4
            /\ C26_LittleEndian(codec.out, codec.value)
            /\ (codec.value = 16909060 => codec.out = <<4, 3, 2, 1>>)
            /\ (codec.value = 1084227584 => codec.out = <<0, 0, 160, 64>>)
            /\ (codec.value = -1 => codec.out = <<255, 255, 255, 255>>)
    /\ codec.kind = "decode"
         => /\ codec.ok <=> Len(codec.buffer) = 4
            /\ ~codec.ok => (codec.v1 = Len(codec.buffer) /\ codec.v2 = 4)
            /\ codec.ok => C26_LittleEndian(codec.buffer, codec.decoded)
    /\ codec.kind = "encode"
         => /\ codec.ok <=> Len(codec.buffer) >= 4
            /\ ~codec.ok => /\ codec.out = codec.buffer
                            /\ codec.v1 = 4
                            /\ codec.v2 = Len(codec.buffer)
            /\ codec.ok => /\ Len(codec.out) = Len(codec.buffer)
                           /\ C26_LittleEndian(codec.out, codec.value)
                           /\ \A i \in 5..Len(codec.buffer) : codec.out[i] = codec.buffer[i]

\* C26 witness: -5.0_f32 (bit 31 set) came back from its four bytes.
C26_Witness ==
    /\ codec.kind = "round_trip"
    /\ codec.value = -1063256064
    /\ codec.out = <<0, 0, 160, 192>>
    /\ codec.decoded = -1063256064

\* C26 witness: a slice of five bytes was rejected by decode.
C26_WitnessCount ==
    /\ codec.kind = "decode"
    /\ Len(codec.buffer) = 5
    /\ ~codec.ok

\* C26 witness: a destination of three bytes was rejected by encode.
C26_WitnessSmall ==
    /\ codec.kind = "encode"
    /\ Len(codec.buffer) = 3
    /\ ~codec.ok
    /\ codec.out = codec.buffer

\* C28 (split header).  A ping or a read is waiting for more bytes, and the
\* reads so far have delivered everything up to and including the first 0xFF
\* of a well-formed packet's header: the last read ended in that 0xFF.
C28_HeaderSplit ==
    /\ pc = "read"
    /\ op.kind \in {"ping", "read"}
    /\ scen.wf
    /\ n_read
    /\ Len(line) = Len(scen.p) - 1 + Len(scen.t)

\* The trailing 0xFF is the new front of the buffer and exactly the bytes
\* before it were discarded.
C28_Kept ==
    /\ read_buffer = <<255>>
    /\ read_len = 1
    /\ used_bytes = 0
    /\ skipped = Len(scen.g)

\* The next read delivers the second 0xFF and the rest of the packet, and
\* read_packet_deadline returns the packet intact.
C28_RestReturned ==
    (C28_HeaderSplit /\ Len(line) - Len(line') >= Len(scen.p) - 1)
    => /\ rpd'.kind = "Packet"
       /\ rpd'.view = Slice(scen.p, 0, Len(scen.p) - 1)
       /\ Slice(read_buffer', 0, Len(scen.p)) = scen.p
       /\ skipped' = Len(scen.g)

\* The bytes before the header hold no 0xFF that is immediately followed by
\* another 0xFF, the first header byte counting as a follower.
C28_NoHeaderBefore ==
    \A i \in 1..Len(scen.g) : scen.g[i] = 255 => (i < Len(scen.g) /\ scen.g[i + 1] # 255)

\* C28 as stated: whatever bytes came before, when a read has ended in the
\* first 0xFF of a well-formed packet's header, that 0xFF is kept as the new
\* front of the buffer, only the bytes before it are discarded, and the read
\* that delivers the second 0xFF and the rest returns the packet intact.
C28_AnySplitHeader ==
    /\ [](C28_HeaderSplit => C28_Kept)
    /\ [][C28_RestReturned]_vars

\* C28 amended: the same, for bytes before the header that hold no 0xFF
\* immediately followed by another 0xFF (the first header byte counting as a
\* follower).
C28_SplitHeader ==
    /\ []((C28_HeaderSplit /\ C28_NoHeaderBefore) => C28_Kept)
    /\ [][C28_NoHeaderBefore => C28_RestReturned]_vars

\* C28 witness: after the garbage 07 FF 00 a read ended in the first header
\* byte; the three garbage bytes are gone and the 0xFF is the front.
C28_Witness ==
    /\ C28_HeaderSplit
    /\ scen.g = <<7, 255, 0>>
    /\ C28_Kept

\* C29 (deferred compaction).  After a successful return the message is
\* marked used and still sits at the front of the buffer.
C29_MarkedNotMoved ==
    rpd.kind = "Packet"
    => /\ used_bytes = rpd.message_len
       /\ read_len >= rpd.message_len
       /\ Len(read_buffer) = read_len
       /\ Slice(read_buffer, 0, rpd.message_len - 1) = rpd.view

\* The read that completes a message drops garbage only: the message and the
\* bytes behind it are in the buffer as they arrived.
C29_ReturnKeepsBytes ==
    (pc = "read" /\ rpd'.kind = "Packet")
    => LET all == read_buffer \o SubSeq(line, 1, Len(line) - Len(line'))
       IN /\ used_bytes = 0
          /\ read_len' = Len(all) - (skipped' - skipped)
          /\ read_buffer' = Slice(all, skipped' - skipped, Len(all))

\* The next read_response shifts the used bytes out: what it leaves is an end
\* piece of the bytes that stood behind them.
C29_NextReadShifts ==
    (rpd.kind = "Packet" /\ nops' = nops + 1 /\ op'.kind = "read_response")
    => /\ read_len' <= read_len - used_bytes
       /\ read_buffer' = Slice(read_buffer, read_len - read_len', read_len)
       /\ used_bytes' = (IF rpd'.kind = "Packet" THEN rpd'.message_len ELSE 0)

\* The next write drops them by its cursor reset, unless its encoding fails.
C29_NextWriteResets ==
    (rpd.kind = "Packet" /\ nops' = nops + 1 /\ op'.kind # "read_response")
    => \/ pc' = "discard" /\ read_len' = 0 /\ used_bytes' = 0
       \/ pc' # "discard" /\ UNCHANGED <<read_buffer, read_len, used_bytes>>

\* No other step touches them.
C29_NotOtherwise ==
    (rpd.kind = "Packet" /\ nops' = nops)
    => UNCHANGED <<read_buffer, read_len, used_bytes>>

\* C29: when read_packet_deadline returns a packet, used_bytes = message_len
\* and the packet sits at offset 0 with read_len and the bytes behind it as
\* they were when the message was completed; the used bytes leave the buffer
\* only in the next read's remove_garbage pass or by the next write's cursor
\* reset.
C29_DeferredCompaction ==
    /\ []C29_MarkedNotMoved
    /\ [][/\ C29_ReturnKeepsBytes
          /\ C29_NextReadShifts
          /\ C29_NextWriteResets
          /\ C29_NotOtherwise]_vars

\* C29 witness: a packet was returned and the packet that arrived in the same
\* read is still buffered behind it.
C29_Witness ==
    /\ rpd.kind = "Packet"
    /\ pc = "idle"
    /\ used_bytes = rpd.message_len
    /\ read_len = used_bytes + 6
    /\ Slice(read_buffer, used_bytes, read_len) = StatusPacket(1, 1, <<>>)

\* C30 (queued replies).  A read_response is running or has returned, whether
\* called by ping or read after their write or called on its own.
C30_NoDiscardNoReset ==
    /\ (op.kind = "read_response" => n_discard = 0 /\ n_write = 0)
    /\ (op.kind \in {"ping", "read"} => n_discard <= 1 /\ n_write <= 1)

\* While read_response runs, discard_input_buffer is not called and no
\* buffered byte is lost other than used bytes, garbage and a message that
\* failed its checksum: without such bytes the buffer only grows by what the
\* transport delivered.
C30_ReadKeepsBytes ==
    (pc = "read")
    => /\ n_discard' = n_discard
       /\ (rpd'.kind \in {"none", "Packet", "Io", "BufferFull"}
             => /\ read_len' = read_len + (Len(line) - Len(line')) - (skipped' - skipped)
                /\ read_buffer'
                     = Slice(read_buffer \o SubSeq(line, 1, Len(line) - Len(line')),
                             skipped' - skipped,
                             read_len + (Len(line) - Len(line'))))

\* One transport read delivers two well-formed packets back to back: the
\* read_response returns the first one and the second one stays buffered.
C30_FirstReturned ==
    (/\ pc = "read"
     /\ read_len = 0
     /\ scen.wf
     /\ scen.t # <<>>
     /\ line = scen.p \o scen.t
     /\ line' = <<>>)
    => /\ rpd'.kind = "Packet"
       /\ rpd'.view = Slice(scen.p, 0, Len(scen.p) - 1)
       /\ used_bytes' = Len(scen.p)
       /\ Slice(read_buffer', used_bytes', read_len') = scen.t

\* A read_response that follows with no write in between returns the second
\* packet unchanged, without a transport read.
C30_SecondReturned ==
    (/\ rpd.kind = "Packet"
     /\ scen.t # <<>>
     /\ Slice(read_buffer, used_bytes, read_len) = scen.t
     /\ nops' = nops + 1
     /\ op'.kind = "read_response")
    => /\ rpd'.kind = "Packet"
       /\ rpd'.view = Slice(scen.t, 0, Len(scen.t) - 1)
       /\ result'.kind = "Ok"
       /\ result'.motor_id = At(scen.t, PACKET_ID)
       /\ result'.warning = from_bits(At(scen.t, PACKET_ERROR))
       /\ result'.data = <<>>
       /\ pc' = "idle"
       /\ ~n_read'
       /\ n_discard' = 0
       /\ line' = line

\* C30: read_response never calls discard_input_buffer and never drops
\* buffered bytes by resetting the cursors; when one transport read delivers
\* two well-formed packets back to back, the first read_response returns the
\* first packet, the second stays buffered, and a following read_response with
\* no write in between returns the second packet unchanged without any
\* further transport read.
C30_QueuedReplies ==
    /\ []C30_NoDiscardNoReset
    /\ [][/\ C30_ReadKeepsBytes
          /\ C30_FirstReturned
          /\ C30_SecondReturned]_vars

\* C30 witness: the second of two packets that arrived in one exchange was
\* returned by a read_response of its own that made no transport read.
C30_Witness ==
    /\ op.kind = "read_response"
    /\ scen.wf
    /\ scen.t = StatusPacket(1, 1, <<>>)
    /\ rpd.kind = "Packet"
    /\ rpd.view = <<255, 255, 1, 2, 1>>
    /\ result.kind = "Ok"
    /\ result.warning = 1
    /\ ~n_read
    /\ n_discard = 0

\* ---------------------------------------------------------------------- C31
\* The loop of read_packet_deadline is about to issue a transport read with
\* exactly four resynchronized bytes buffered: the header prefix, the ID and
\* the length byte.
C31_FourBytesBuffered ==
    /\ pc = "read"
    /\ read_len = HEADER_SIZE
    /\ used_bytes = 0
    /\ StartsWith(read_buffer, HEADER_PREFIX)

\* C31 as stated: after resynchronization the length byte is examined as soon
\* as 4 bytes are buffered; with exactly 4 buffered bytes and 4 + length byte
\* greater than the read buffer capacity, read_packet_deadline fails with
\* buffer-too-small and does not issue another transport read.
C31_LengthCheckTiming ==
    C31_FourBytesBuffered => HEADER_SIZE + At(read_buffer, PACKET_LEN) <= read_cap

\* ---------------------------------------------------------------------- C32
\* A step in which the transport read of the polling loop returns Ok(0).
C32_ZeroRead ==
    /\ pc = "read"
    /\ last_read' = "zero"

\* C32 as stated: a transport read that returns Ok(0) never makes
\* read_response fail and changes neither read_len, used_bytes nor the
\* buffered bytes; the loop polls again (the next step of the operation is
\* another transport read), and read_response fails with an I/O error only
\* when a transport read itself returned an error.
C32_ZeroLengthRead ==
    /\ [][C32_ZeroRead =>
            /\ read_len' = read_len
            /\ used_bytes' = used_bytes
            /\ read_buffer' = read_buffer
            /\ line' = line
            /\ pc' = "read"
            /\ result' = NoResult
            /\ rpd' = NoRpd]_vars
    /\ [](result.kind = "Io" => (last_read = "error" /\ io_error = "read"))
    /\ [](rpd.kind = "Io" => (last_read = "error" /\ io_error = "read"))

\* A read of zero bytes has just returned while part of a message is buffered,
\* and the loop is polling again.
C32_Witness ==
    /\ pc = "read"
    /\ last_read = "zero"
    /\ read_len > 0
    /\ StartsWith(read_buffer, HEADER_PREFIX)
    /\ line # <<>>

\* ---------------------------------------------------------------------- C33
\* C33 as stated: every packet view that read_packet_deadline returns
\* successfully is at least 5 bytes long, its length byte being at least 2, so
\* that the motor ID at index 2 and the flag byte at index 4 can be read from it
\* and read_response_timeout does not abort, whatever bytes the transport
\* delivered.
C33_MinimumResponseSize ==
    rpd.kind = "Packet" =>
        /\ Len(rpd.view) >= 5
        /\ Len(rpd.view) > PACKET_ERROR
        /\ At(rpd.view, PACKET_LEN) >= 2
        /\ result.kind # "Panic"

\* ---------------------------------------------------------------------- C34
\* C34 as stated: with a read buffer of at least 6 bytes and a transport that
\* returns at most the length of the slice it is offered, read_len is below
\* the capacity whenever read_packet_deadline issues a transport read: the
\* slice read_buffer[read_len..] it offers is never empty.
C34_NonEmptyReadSlice ==
    (pc = "read" /\ read_cap >= HEADER_SIZE + 2) =>
        /\ read_len < read_cap
        /\ Len(read_buffer) = read_len

\* A transport read is issued with a single free cell left in the buffer.
C34_Witness ==
    /\ pc = "read"
    /\ read_cap >= HEADER_SIZE + 2
    /\ read_len = read_cap - 1
    /\ last_read = "data"

\* ---------------------------------------------------------------------- C35
\* The steps in which remove_garbage is called: a pass of the loop of
\* read_packet_deadline after a transport read returned Ok, and the first pass
\* of a read_response or of the read that follows a write.
C35_Calls ==
    \/ pc = "read" /\ last_read' \in {"data", "zero"}
    \/ pc = "idle" /\ nops' = nops + 1 /\ op'.kind = "read_response"
    \/ pc = "write_all" /\ pc' = "read"
    \/ pc = "made"

\* The buffered bytes and the cursors remove_garbage is called on in such a
\* step: those of the state, with the bytes a transport read has just added.
C35_Input ==
    IF pc = "read"
    THEN [buf |-> read_buffer \o SubSeq(line, 1, Len(line) - Len(line')),
          read_len |-> read_len + (Len(line) - Len(line')),
          used_bytes |-> used_bytes]
    ELSE [buf |-> read_buffer, read_len |-> read_len, used_bytes |-> used_bytes]

\* The postcondition of remove_garbage called on in, g being what it left.
C35_Post(in, g) ==
    /\ g.used_bytes = 0
    /\ \/ g.buf = <<>>
       \/ g.buf = <<255>>
       \/ (Len(g.buf) >= 2 /\ g.buf[1] = 255 /\ g.buf[2] = 255)
    /\ Len(g.buf) = g.read_len
    /\ g.read_len <= in.read_len - in.used_bytes
    /\ \A i \in 1..g.read_len : g.buf[i] = in.buf[(in.read_len - g.read_len) + i]

\* C35 as stated: after every remove_garbage call used_bytes = 0 and the
\* buffered bytes are empty, the single byte 0xFF, or begin with 0xFF 0xFF; the
\* bytes kept are exactly the bytes that followed the discarded prefix, in the
\* same order, and read_len decreased by the number of discarded bytes.  When
\* the loop goes on to a transport read, the bus is in that state.
C35_ResyncPostcondition ==
    [][C35_Calls =>
         /\ C35_Post(C35_Input,
                     remove_garbage(C35_Input.buf, C35_Input.read_len,
                                    C35_Input.used_bytes))
         /\ pc' = "read" =>
              /\ used_bytes' = 0
              /\ read_len' = remove_garbage(C35_Input.buf, C35_Input.read_len,
                                            C35_Input.used_bytes).read_len
              /\ read_buffer' = remove_garbage(C35_Input.buf, C35_Input.read_len,
                                               C35_Input.used_bytes).buf
              /\ (read_len' = 0 \/ read_buffer'[1] = 255)
              /\ (read_len' >= 2 => read_buffer'[2] = 255)]_vars

\* remove_garbage has dropped garbage bytes and kept the bytes behind them.
C35_Witness ==
    /\ pc = "read"
    /\ last_read = "data"
    /\ skipped > 0
    /\ read_len > 0
    /\ used_bytes = 0

\* ---------------------------------------------------------------------- C36
\* The message a read (the operation that goes through transfer_single) has
\* received: the frame at the front of what the device sent, complete, with
\* an error byte, and taken off the line by a read_packet_deadline that
\* returned otherwise than by a transport or capacity error.
C36_Message == Slice(Stream(scen), 0, C7_MessageLen)

C36_Received ==
    /\ op.kind = "read"
    /\ n_write = 1
    /\ scen.g = <<>>
    /\ Len(Stream(scen)) >= HEADER_SIZE
    /\ StartsWith(Stream(scen), HEADER_PREFIX)
    /\ C7_MessageLen >= HEADER_SIZE + 2
    /\ C7_MessageLen <= Len(Stream(scen))
    /\ rpd.kind \notin {"none", "Io", "BufferFull"}

C36_ChecksumOk ==
    At(C36_Message, C7_MessageLen - 1)
        = calculate_checksum(Slice(C36_Message, 2, C7_MessageLen - 1))

C36_IdOk == At(C36_Message, PACKET_ID) = op.id

C36_ErrorFlagsSet ==
    \E k \in 0..7 : Bit(At(C36_Message, PACKET_ERROR), k) = 1 /\ Bit(ERROR_FLAGS, k) = 1

\* C36 as stated: transfer_single validates a received message in the order
\* checksum, packet ID, error flags, and the first failing check decides the
\* error.  A bad checksum yields InvalidChecksum whatever the ID and the flags
\* (the message is shifted out of the buffer); a valid checksum with a wrong ID
\* yields InvalidPacketId, also when error flags are set, never MotorError;
\* MotorError is returned only for a message whose checksum and ID were right.
\* With InvalidPacketId and MotorError the message is still at the front of
\* the buffer and marked used.
C36_CheckOrder ==
    C36_Received =>
        /\ ~C36_ChecksumOk =>
             /\ result.kind = "InvalidChecksum"
             /\ used_bytes = 0
             /\ read_buffer \o line = Slice(Stream(scen), C7_MessageLen, Len(Stream(scen)))
        /\ (C36_ChecksumOk /\ ~C36_IdOk) =>
             /\ result.kind = "InvalidPacketId"
             /\ result.v1 = At(C36_Message, PACKET_ID)
             /\ result.v2 = op.id
        /\ result.kind = "InvalidPacketId" => (C36_ChecksumOk /\ ~C36_IdOk)
        /\ result.kind = "MotorError" =>
             (C36_ChecksumOk /\ C36_IdOk /\ C36_ErrorFlagsSet)
        /\ result.kind \in {"InvalidPacketId", "MotorError"} =>
             /\ used_bytes = C7_MessageLen
             /\ Slice(read_buffer, 0, used_bytes) = C36_Message

\* A read was answered by another motor's frame with a valid checksum and an
\* error flag set, and failed with InvalidPacketId.
C36_Witness ==
    /\ C36_Received
    /\ C36_ChecksumOk
    /\ ~C36_IdOk
    /\ C36_ErrorFlagsSet
    /\ result.kind = "InvalidPacketId"

\* A read was answered by another motor's frame with an error flag set and a
\* bad checksum, and failed with InvalidChecksum.
C36_WitnessChecksum ==
    /\ C36_Received
    /\ ~C36_ChecksumOk
    /\ ~C36_IdOk
    /\ C36_ErrorFlagsSet
    /\ result.kind = "InvalidChecksum"

\* A read was answered by its own motor's frame with an error flag set, and
\* failed with MotorError.
C36_WitnessMotorError ==
    /\ C36_Received
    /\ result.kind = "MotorError"

====
